---- MODULE Spec2Model ----
(***************************************************************************)
(* Event distribution and session consistency of the task bridge.          *)
(*                                                                         *)
(* Hosting side: API (src/src/exports/api.ts), IpcServer                   *)
(* (src/unnamed/part_008) and CliBridgeServer                              *)
(* (src/src/services/ipc/CliBridgeServer.ts).  The agent (ClineProvider /  *)
(* Cline) is an opaque collaborator: it creates tasks and emits their      *)
(* lifecycle and content events.  The state is the one the extension is in *)
(* once activate() (src/unnamed/part_010) has returned: the IpcServer      *)
(* listens, the bridge holds the API instance and the extension exports    *)
(* carry cliBridgeServer.                                                  *)
(***************************************************************************)
EXTENDS Integers, Sequences, FiniteSets, TLC

(***************************************************************************)
(* Bounds of the model.                                                    *)
(***************************************************************************)
MaxPendingStarts == 1  \* StartNewTask handlers suspended at the same time

IpcOrder == <<"c1">>         \* ids IpcServer.onConnect draws, in this order
IpcIds == {IpcOrder[i] : i \in 1..Len(IpcOrder)}
WsOrder == <<"w1", "w2">>    \* ids the bridge's connection handler draws, in this order
WsIds == {WsOrder[i] : i \in 1..Len(WsOrder)}
FirstWsIds == {WsOrder[1]}   \* the connection of a client that connects once
TaskOrder == <<"t1">>        \* ids the agent gives to tasks, in this order
TaskIds == {TaskOrder[i] : i \in 1..Len(TaskOrder)}
Contents == {"", " ", "hi"}  \* message contents the agent can emit

(***************************************************************************)
(* Program constants.                                                      *)
(***************************************************************************)
WEBVIEW_CLIENT_ID == "webview-ui"
WS_CLIENT_PREFIX == "ws-"
CliBridgeServerAvailable == TRUE

NoTask == "none"

ConnIds == IpcIds \cup WsIds

(***************************************************************************)
(* JavaScript helpers on arrays, strings and Maps.                         *)
(***************************************************************************)
Includes(list, x) == \E i \in 1..Len(list) : list[i] = x

Elems(list) == {list[i] : i \in 1..Len(list)}

Without(list, x) == SelectSeq(list, LAMBDA y : y # x)

StartsWith(s, p) == Len(s) >= Len(p) /\ SubSeq(s, 1, Len(p)) = p

Substring(s, from) == SubSeq(s, from + 1, Len(s))

RECURSIVE TrimStart(_)
TrimStart(s) ==
    IF Len(s) > 0 /\ SubSeq(s, 1, 1) = " " THEN TrimStart(SubSeq(s, 2, Len(s))) ELSE s

RECURSIVE TrimEnd(_)
TrimEnd(s) ==
    IF Len(s) > 0 /\ SubSeq(s, Len(s), Len(s)) = " "
    THEN TrimEnd(SubSeq(s, 1, Len(s) - 1)) ELSE s

Trim(s) == TrimEnd(TrimStart(s))

MapHas(m, k) == k \in DOMAIN m

MapGetOrEmpty(m, k) == IF k \in DOMAIN m THEN m[k] ELSE << >>

MapSet(m, k, v) == [x \in (DOMAIN m) \cup {k} |-> IF x = k THEN v ELSE m[x]]

MapDelete(m, k) == [x \in (DOMAIN m) \ {k} |-> m[x]]

EmptyMap == [x \in {} |-> << >>]

(***************************************************************************)
(* State.                                                                  *)
(***************************************************************************)
VARIABLES
    clients,              \* IpcServer._clients: connected ids, insertion order
    ipcAssigned,          \* number of ids IpcServer.onConnect has handed out
    connectedClients,     \* CliBridgeServer.connectedClients: ids, insertion order
    readyState,           \* readyState of each bridge WebSocket ("NONE": no socket yet)
    taskIdToClientIdMap,  \* API.taskIdToClientIdMap
    taskMap,              \* keys of API.taskMap
    taskState,            \* the agent's task: "none", "live", "ended"
    pendingStarts,        \* StartNewTask handlers suspended in await startNewTask
    startedBy,            \* the client whose StartNewTask handler yielded the task
    last                  \* the handler that ran last and what it did

vars == <<clients, ipcAssigned, connectedClients, readyState, taskIdToClientIdMap,
          taskMap, taskState, pendingStarts, startedBy, last>>

\* The CLI process (src/roocli, src/unnamed/part_001): one IpcClient, the
\* WebSocket objects it created, its connect() calls and its consumer.
VARIABLES
    ipcClient,            \* the fields of IpcClient
    sockets,              \* the WebSocket objects new WebSocket(...) returned
    calls,                \* the connect() call of the CLI and the one of the retry timer
    proc,                 \* the CLI process: consumer mode, listeners, running or not
    clog                  \* what the session did: events emitted, commands sent

clientVars == <<ipcClient, sockets, calls, proc, clog>>

\* The Repl of the CLI process (src/roocli/src/repl.ts): its stream fields.
VARIABLES
    repl,                 \* isStreaming, currentStreamedMessage, hasDisplayedPrefix, lastMessageId
    rlog                  \* the updates rendered last and what they wrote

replVars == <<repl, rlog>>

\* The Repl's prompt rounds (src/roocli/src/repl.ts).
VARIABLES
    broker,               \* lastAskMessageId, isWaitingForUserInput, currentTaskId, the open prompts
    blog                  \* the event handled last and what it sent

brokerVars == <<broker, blog>>

\* One non-interactive invocation (src/unnamed/part_002, Scripting).
VARIABLES
    script,               \* the fields of Scripting and of the IpcClient it uses
    slog                  \* the event handled last and the first cause that occurred

scriptVars == <<script, slog>>

notClientVars == <<vars, replVars, brokerVars, scriptVars>>

notReplVars == <<vars, clientVars, brokerVars, scriptVars>>

notBrokerVars == <<vars, clientVars, replVars, scriptVars>>

notScriptVars == <<vars, clientVars, replVars, brokerVars>>

consumerVars == <<clientVars, replVars, brokerVars, scriptVars>>

\* What a handler did: for sendIpcEvent the task, whether the task had an
\* entry and was live when the event was emitted, the list dispatched over
\* and the passes of the dispatch loop in order; for an inbound envelope
\* whether it was well-formed and whether it was forwarded; for a bridge
\* message the connections written to, with the task and its list.
Did(op) ==
    [op |-> op, task |-> NoTask, known |-> FALSE, wasLive |-> FALSE,
     released |-> FALSE,
     subs |-> << >>, attempts |-> << >>,
     wellFormed |-> TRUE, forwarded |-> FALSE, recipients |-> {}]

Init ==
    /\ clients = << >>
    /\ ipcAssigned = 0
    /\ connectedClients = << >>
    /\ readyState = [w \in WsIds |-> "NONE"]
    /\ taskIdToClientIdMap = EmptyMap
    /\ taskMap = {}
    /\ taskState = [t \in TaskIds |-> "none"]
    /\ pendingStarts = << >>
    /\ startedBy = [t \in TaskIds |-> ""]
    /\ last = Did("none")

\* An id that onConnect / the connection handler has already handed out.
Assigned(c) ==
    \/ \E i \in 1..ipcAssigned : IpcOrder[i] = c
    \/ c \in WsIds /\ readyState[c] # "NONE"

KnownEventNames ==
    {"message", "taskCreated", "taskStarted", "taskPaused", "taskUnpaused",
     "taskAskResponded", "taskAborted", "taskModeSwitched", "taskSpawned",
     "taskCompleted", "taskTokenUsageUpdated"}

\* The name under which a connection appears in taskIdToClientIdMap.
SubscriberName(c) == IF c \in WsIds THEN WS_CLIENT_PREFIX \o c ELSE c

(***************************************************************************)
(* IpcServer.send(client: string, message): writes when the id has a       *)
(* socket in _clients, does nothing otherwise.                             *)
(***************************************************************************)
IpcServerSend(clientId) == Includes(clients, clientId)

(***************************************************************************)
(* CliBridgeServer.sendMessageToClientById: true when the socket exists    *)
(* and is OPEN (and the message was written), false otherwise.             *)
(***************************************************************************)
sendMessageToClientById(clientId) ==
    /\ clientId \in WsIds
    /\ Includes(connectedClients, clientId)
    /\ readyState[clientId] = "OPEN"

\* One pass of the dispatch loop: the subscriber, the connection addressed,
\* the kind of message and whether it was written to the channel.
Attempt(to, conn, kind, ok) == [to |-> to, conn |-> conn, kind |-> kind, ok |-> ok]

(***************************************************************************)
(* The dispatch loop of API.sendIpcEvent, from position i of clientIds:    *)
(* the passes it makes, in order.  A message event without content for a   *)
(* WebSocket subscriber executes `return`, which leaves the loop and the   *)
(* function.                                                               *)
(***************************************************************************)
RECURSIVE DispatchLoop(_, _, _, _)
DispatchLoop(clientIds, i, eventName, content) ==
    IF i > Len(clientIds) THEN << >>
    ELSE
      LET clientId == clientIds[i]
          rest == DispatchLoop(clientIds, i + 1, eventName, content)
      IN
      IF StartsWith(clientId, WS_CLIENT_PREFIX)
      THEN
        LET wsClientId == Substring(clientId, Len(WS_CLIENT_PREFIX)) IN
        IF CliBridgeServerAvailable
        THEN
          IF eventName = "message"
          THEN
            IF Trim(content) # ""
            THEN <<Attempt(clientId, wsClientId, "partialMessage",
                           sendMessageToClientById(wsClientId))>> \o rest
            ELSE <<Attempt(clientId, wsClientId, "nothing", FALSE)>>
          ELSE <<Attempt(clientId, wsClientId, "taskEvent",
                         sendMessageToClientById(wsClientId))>> \o rest
        ELSE <<Attempt(clientId, wsClientId, "nothing", FALSE)>> \o rest
      ELSE <<Attempt(clientId, clientId, "TaskEvent", IpcServerSend(clientId))>> \o rest

\* ipc.send to every id of a list (the loop of the broadcast branch).
RECURSIVE SendToAll(_, _)
SendToAll(ids, i) ==
    IF i > Len(ids) THEN << >>
    ELSE <<Attempt(ids[i], ids[i], "TaskEvent", IpcServerSend(ids[i]))>>
         \o SendToAll(ids, i + 1)

\* sendIpcEvent writing to every connected IPC client after the loop over
\* the list of the task.
sendIpcEvent_AlsoBroadcast(m, eventName, taskId, content) ==
    IF taskId = NoTask
    THEN [map |-> m, subs |-> << >>, attempts |-> << >>]
    ELSE
      LET got == MapGetOrEmpty(m, taskId)
          clientIds == IF Includes(got, WEBVIEW_CLIENT_ID) THEN got
                       ELSE Append(got, WEBVIEW_CLIENT_ID)
          m1 == IF Includes(got, WEBVIEW_CLIENT_ID) THEN m
                ELSE MapSet(m, taskId, clientIds)
      IN [map |-> m1, subs |-> clientIds,
          attempts |-> DispatchLoop(clientIds, 1, eventName, content)
                         \o SendToAll(clients, 1)]

(***************************************************************************)
(* API.sendIpcEvent on subscription table m: the table afterwards, the     *)
(* list the event was dispatched over and the passes of the loop.          *)
(***************************************************************************)
sendIpcEvent(m, eventName, taskId, content) ==
    IF taskId = NoTask
    THEN [map |-> m, subs |-> << >>, attempts |-> << >>]
    ELSE
      LET got == MapGetOrEmpty(m, taskId)
          clientIds == IF Includes(got, WEBVIEW_CLIENT_ID) THEN got
                       ELSE Append(got, WEBVIEW_CLIENT_ID)
          m1 == IF Includes(got, WEBVIEW_CLIENT_ID) THEN m
                ELSE MapSet(m, taskId, clientIds)
      IN
      IF Len(clientIds) > 0
      THEN
        IF eventName \in KnownEventNames
        THEN [map |-> m1, subs |-> clientIds,
              attempts |-> DispatchLoop(clientIds, 1, eventName, content)]
        ELSE [map |-> m1, subs |-> clientIds, attempts |-> << >>]
      ELSE
        \* broadcast branch: no client id known for the task
        LET connected == clients IN
        IF Len(connected) > 0
        THEN
          LET all == IF Includes(connected, WEBVIEW_CLIENT_ID) THEN connected
                     ELSE Append(connected, WEBVIEW_CLIENT_ID)
          IN [map |-> MapSet(m1, taskId, all), subs |-> all,
              attempts |-> SendToAll(all, 1)]
        ELSE [map |-> m1, subs |-> << >>, attempts |-> << >>]

\* The subscribers of a list whose channel is open right now.
LiveSubscribers(subs) ==
    {c \in IpcIds : Includes(subs, c) /\ Includes(clients, c)}
    \cup {w \in WsIds : /\ Includes(subs, WS_CLIENT_PREFIX \o w)
                        /\ Includes(connectedClients, w)
                        /\ readyState[w] = "OPEN"}

(***************************************************************************)
(* One call sendIpcEvent(eventName, taskId, args) on table m, whose        *)
(* caller then deletes the entry of the task (release) or does not.        *)
(***************************************************************************)
Emit(m, eventName, taskId, content, release) ==
    LET r == sendIpcEvent(m, eventName, taskId, content)
    IN /\ taskIdToClientIdMap' = IF release THEN MapDelete(r.map, taskId) ELSE r.map
       /\ last' = [Did("emit") EXCEPT
                     !.task = taskId,
                     !.known = MapHas(m, taskId),
                     !.wasLive = taskState[taskId] = "live",
                     !.released = release,
                     !.subs = r.subs,
                     !.attempts = r.attempts]

\* The listener does nothing to the table after sendIpcEvent.
Keep == FALSE

(***************************************************************************)
(* API.registerClientForTask and API.registerWebSocketClientForTask on     *)
(* table m: the table afterwards.                                          *)
(***************************************************************************)
registerClientForTask(m, taskId, clientId) ==
    LET m1 == IF taskId \in taskMap THEN m
              ELSE IF ~MapHas(m, taskId) THEN MapSet(m, taskId, << >>) ELSE m
        clientIds == MapGetOrEmpty(m1, taskId)
        withClient == IF ~Includes(clientIds, clientId)
                      THEN Append(clientIds, clientId) ELSE clientIds
        m2 == IF ~Includes(clientIds, clientId)
              THEN MapSet(m1, taskId, withClient) ELSE m1
        withWebview == IF ~Includes(withClient, WEBVIEW_CLIENT_ID)
                       THEN Append(withClient, WEBVIEW_CLIENT_ID) ELSE withClient
    IN IF ~Includes(withClient, WEBVIEW_CLIENT_ID)
       THEN MapSet(m2, taskId, withWebview) ELSE m2

registerWebSocketClientForTask(m, taskId, wsClientId) ==
    registerClientForTask(m, taskId, WS_CLIENT_PREFIX \o wsClientId)

(***************************************************************************)
(* IpcServer: connections of the local-socket transport.                   *)
(***************************************************************************)
\* What IpcServer.onConnect writes to the new socket, in order: the Ack.
onConnectSends(c) == <<Attempt(c, c, "Ack", TRUE)>>

\* IpcServer.onConnect: a new id, the Ack, then the Connect event (which
\* has no listener in API).
onConnect(c) ==
    /\ ipcAssigned < Len(IpcOrder)
    /\ c = IpcOrder[ipcAssigned + 1]
    /\ ipcAssigned' = ipcAssigned + 1
    /\ clients' = Append(clients, c)
    /\ last' = [Did("onConnect") EXCEPT !.attempts = onConnectSends(c)]
    /\ UNCHANGED <<connectedClients, readyState, taskIdToClientIdMap, taskMap,
                   taskState, pendingStarts, startedBy>>

\* IpcServer.onDisconnect: the socket leaves _clients; the Disconnect event
\* has no listener in API.
onDisconnect(c) ==
    /\ Includes(clients, c)
    /\ clients' = Without(clients, c)
    /\ last' = Did("none")
    /\ UNCHANGED <<ipcAssigned, connectedClients, readyState, taskIdToClientIdMap,
                   taskMap, taskState, pendingStarts, startedBy>>

(***************************************************************************)
(* Inbound envelopes of the local-socket transport.                        *)
(***************************************************************************)
Missing == "missing"

Envelope(typeof, type, origin, clientId, commandName, taskId) ==
    [typeof |-> typeof, type |-> type, origin |-> origin, clientId |-> clientId,
     commandName |-> commandName, taskId |-> taskId]

\* cliCommandSchema, for the commands whose data the model carries.
cliCommandSchema(e) ==
    \/ e.commandName = "StartNewTask"
    \/ e.commandName = "SendMessage" /\ e.taskId # Missing
    \/ e.commandName \in {"CancelTask", "CloseTask"} /\ e.taskId # Missing
    \/ e.commandName = "ConfigList"

\* ipcMessageSchema.safeParse(data).success
ipcMessageSchema(e) ==
    \/ e.type = "Ack" /\ e.origin = "server"
    \/ /\ e.type = "CliCommand"
       /\ e.origin = "client"
       /\ e.clientId # Missing
       /\ cliCommandSchema(e)
    \/ e.type = "TaskEvent" /\ e.origin = "server"

\* The envelopes a peer may write to the socket under client id c: the
\* two commands that use the client id, and defective variants of them.
EnvelopesFrom(c) ==
    {Envelope("object", "CliCommand", "client", c, "StartNewTask", Missing),
     Envelope("string", "CliCommand", "client", c, "StartNewTask", Missing),
     Envelope("object", "CliCommand", "server", c, "StartNewTask", Missing),
     Envelope("object", "CliCommand", "client", c, "SendMessage", Missing)}
    \cup {Envelope("object", "CliCommand", "client", c, "SendMessage", t) : t \in TaskIds}
    \cup {Envelope("string", "CliCommand", "client", c, "SendMessage", t) : t \in TaskIds}

\* Envelopes whose handling does not depend on the client id.
OtherEnvelopes ==
    {Envelope("object", "CliCommand", "client", IpcOrder[1], "ConfigList", Missing),
     Envelope("object", "Bogus", "client", IpcOrder[1], "StartNewTask", Missing),
     Envelope("object", "CliCommand", "client", Missing, "StartNewTask", Missing),
     Envelope("object", "CliCommand", "client", IpcOrder[1], "Bogus", Missing),
     Envelope("object", "CliCommand", "client", IpcOrder[1], "CancelTask", Missing),
     Envelope("object", "TaskEvent", "server", IpcOrder[1], "StartNewTask", Missing)}
    \cup {Envelope("object", "CliCommand", "client", IpcOrder[1], n, t) :
            n \in {"CancelTask", "CloseTask"}, t \in TaskIds}

\* onMessageAccepts without the safeParse of the envelope.
onMessageAccepts_NoSchema(e) ==
    /\ e.typeof = "object"

\* IpcServer.onMessage up to the switch: is the envelope let through?
onMessageAccepts(e) ==
    /\ e.typeof = "object"
    /\ ipcMessageSchema(e)

\* ... and does it reach the CliCommand listener?
onMessageEmits(e) ==
    /\ onMessageAccepts(e)
    /\ e.origin = "client"
    /\ e.type = "CliCommand"

\* The SendMessage case of the CliCommand listener, on table m.
SendMessageHandler(m, clientId, taskId) ==
    IF taskId # Missing
    THEN LET clientIds == MapGetOrEmpty(m, taskId) IN
         IF ~Includes(clientIds, clientId)
         THEN MapSet(m, taskId, Append(clientIds, clientId))
         ELSE m
    ELSE m

\* IpcServer.onMessage and, when it emits, the CliCommand listener of API
\* up to its first await.
onMessage(e) ==
    /\ LET starts == onMessageEmits(e) /\ e.commandName = "StartNewTask" IN
       /\ starts => Len(pendingStarts) < MaxPendingStarts
       /\ pendingStarts' =
            IF starts
            THEN Append(pendingStarts, [clientId |-> e.clientId, taskId |-> NoTask])
            ELSE pendingStarts
       /\ taskIdToClientIdMap' =
            IF onMessageEmits(e) /\ e.commandName = "SendMessage"
            THEN SendMessageHandler(taskIdToClientIdMap, e.clientId, e.taskId)
            ELSE taskIdToClientIdMap
       /\ last' = [Did("onMessage") EXCEPT
                     !.wellFormed = e.typeof = "object" /\ ipcMessageSchema(e),
                     !.forwarded = onMessageEmits(e)]
    /\ UNCHANGED <<clients, ipcAssigned, connectedClients, readyState, taskMap,
                   taskState, startedBy>>

(***************************************************************************)
(* The agent: task creation and the events of a task, with the listeners   *)
(* API.registerListeners attaches to them.                                 *)
(***************************************************************************)
RemoveAt(list, i) == SubSeq(list, 1, i - 1) \o SubSeq(list, i + 1, Len(list))

\* The agent gives ids in a fixed order, each once.
FreshTask(t) ==
    \E i \in 1..Len(TaskOrder) :
        /\ TaskOrder[i] = t
        /\ taskState[t] = "none"
        /\ \A j \in 1..(i - 1) : taskState[TaskOrder[j]] # "none"

\* The clineCreated listener, on table m.
clineCreatedMap(m, taskId) ==
    IF ~MapHas(m, taskId)
    THEN LET cliClients == Without(clients, WEBVIEW_CLIENT_ID) IN
         IF Len(clients) > 0 /\ Len(cliClients) > 0
         THEN MapSet(m, taskId, Append(cliClients, WEBVIEW_CLIENT_ID))
         ELSE MapSet(m, taskId, <<WEBVIEW_CLIENT_ID>>)
    ELSE m

\* provider emits clineCreated for a task started from the UI (i = 0) or by
\* the startNewTask call of pending handler i.
clineCreated(t, i) ==
    /\ FreshTask(t)
    /\ i \in 0..Len(pendingStarts)
    /\ i > 0 => pendingStarts[i].taskId = NoTask
    /\ taskState' = [taskState EXCEPT ![t] = "live"]
    /\ pendingStarts' = IF i > 0 THEN [pendingStarts EXCEPT ![i].taskId = t]
                        ELSE pendingStarts
    /\ Emit(clineCreatedMap(taskIdToClientIdMap, t), "taskCreated", t, "", Keep)
    /\ UNCHANGED <<clients, ipcAssigned, connectedClients, readyState, taskMap,
                   startedBy>>

\* StartNewTaskResume without the taskIdToClientIdMap.set of the handler.
StartNewTaskResume_NoRegister(i) ==
    /\ i \in 1..Len(pendingStarts)
    /\ pendingStarts[i].taskId # NoTask
    /\ LET clientId == pendingStarts[i].clientId
           taskId == pendingStarts[i].taskId
       IN /\ taskMap' = taskMap \cup {taskId}
          /\ startedBy' = [startedBy EXCEPT ![taskId] = clientId]
          /\ Emit(taskIdToClientIdMap, "taskStarted", taskId, "", Keep)
    /\ pendingStarts' = RemoveAt(pendingStarts, i)
    /\ UNCHANGED <<clients, ipcAssigned, connectedClients, readyState, taskState>>

\* await startNewTask(...) returns the task id: taskMap.set in startNewTask,
\* then the rest of the StartNewTask case of the CliCommand listener.
StartNewTaskResume(i) ==
    /\ i \in 1..Len(pendingStarts)
    /\ pendingStarts[i].taskId # NoTask
    /\ LET clientId == pendingStarts[i].clientId
           taskId == pendingStarts[i].taskId
       IN /\ taskMap' = taskMap \cup {taskId}
          /\ startedBy' = [startedBy EXCEPT ![taskId] = clientId]
          /\ Emit(MapSet(taskIdToClientIdMap, taskId, <<clientId, WEBVIEW_CLIENT_ID>>),
                  "taskStarted", taskId, "", Keep)
    /\ pendingStarts' = RemoveAt(pendingStarts, i)
    /\ UNCHANGED <<clients, ipcAssigned, connectedClients, readyState, taskState>>

\* await startNewTask(...) throws, before or after the agent created the
\* task: the handler only logs.
StartNewTaskThrows(i) ==
    /\ i \in 1..Len(pendingStarts)
    /\ pendingStarts' = RemoveAt(pendingStarts, i)
    /\ last' = Did("startFailed")
    /\ UNCHANGED <<clients, ipcAssigned, connectedClients, readyState,
                   taskIdToClientIdMap, taskMap, taskState, startedBy>>

\* initClineWithTask yields no task id: startNewTask returns it and the
\* handler only logs.  (taskMap then has an entry under that missing id, which
\* no lookup ever asks for; taskMap keeps the keys that are task ids.)
StartNewTaskNoId(i) ==
    /\ i \in 1..Len(pendingStarts)
    /\ pendingStarts[i].taskId = NoTask
    /\ pendingStarts' = RemoveAt(pendingStarts, i)
    /\ last' = Did("startFailed")
    /\ UNCHANGED <<clients, ipcAssigned, connectedClients, readyState,
                   taskIdToClientIdMap, taskMap, taskState, startedBy>>

Emitting(t) == taskState[t] \in {"live", "ended"}

\* cline.on("taskStarted")
taskStarted(t) ==
    /\ Emitting(t)
    /\ taskMap' = taskMap \cup {t}
    /\ Emit(taskIdToClientIdMap, "taskStarted", t, "", Keep)
    /\ UNCHANGED <<clients, ipcAssigned, connectedClients, readyState, taskState,
                   pendingStarts, startedBy>>

\* cline.on("message")
message(t, content) ==
    /\ Emitting(t)
    /\ content \in Contents
    /\ Emit(taskIdToClientIdMap, "message", t, content, Keep)
    /\ UNCHANGED <<clients, ipcAssigned, connectedClients, readyState, taskMap,
                   taskState, pendingStarts, startedBy>>

PlainEventNames ==
    {"taskModeSwitched", "taskTokenUsageUpdated", "taskAskResponded",
     "taskSpawned", "taskPaused", "taskUnpaused"}

\* cline.on of the events whose listener only forwards
plainEvent(t, name) ==
    /\ Emitting(t)
    /\ name \in PlainEventNames
    /\ Emit(taskIdToClientIdMap, name, t, "", Keep)
    /\ UNCHANGED <<clients, ipcAssigned, connectedClients, readyState, taskMap,
                   taskState, pendingStarts, startedBy>>

\* cline.on("taskAborted") and cline.on("taskCompleted")
taskTerminal(t, name) ==
    /\ taskState[t] = "live"
    /\ name \in {"taskAborted", "taskCompleted"}
    /\ Emit(taskIdToClientIdMap, name, t, "", ~Keep)
    /\ taskMap' = taskMap \ {t}
    /\ taskState' = [taskState EXCEPT ![t] = "ended"]
    /\ UNCHANGED <<clients, ipcAssigned, connectedClients, readyState,
                   pendingStarts, startedBy>>

(***************************************************************************)
(* CliBridgeServer: the WebSocket transport.                               *)
(***************************************************************************)
\* The connection handler with the welcome message written before the
\* clientId message.
connectionSends_WelcomeFirst(w) ==
    <<Attempt(SubscriberName(w), w, "action", TRUE),
      Attempt(SubscriberName(w), w, "clientId", TRUE)>>

\* What the connection handler writes to the new socket, in order: the
\* clientId message, then the welcome action (the socket is OPEN).
connectionSends(w) ==
    <<Attempt(SubscriberName(w), w, "clientId", TRUE),
      Attempt(SubscriberName(w), w, "action", TRUE)>>

\* The connection handler of setupEventHandlers: a new id, registration
\* for the provider's current task (cur, NoTask when there is none), the
\* clientId message and the welcome message.
connection(w, cur) ==
    /\ w \in WsIds
    /\ ~Assigned(w)
    /\ cur = NoTask \/ (cur \in TaskIds /\ Emitting(cur))
    /\ connectedClients' = Append(connectedClients, w)
    /\ readyState' = [readyState EXCEPT ![w] = "OPEN"]
    /\ taskIdToClientIdMap' =
         IF cur # NoTask
         THEN registerWebSocketClientForTask(taskIdToClientIdMap, cur, w)
         ELSE taskIdToClientIdMap
    /\ last' = [Did("connection") EXCEPT !.attempts = connectionSends(w)]
    /\ UNCHANGED <<clients, ipcAssigned, taskMap, taskState, pendingStarts,
                   startedBy>>

\* The socket leaves the OPEN state; its close event has not fired yet.
wsClosing(w) ==
    /\ w \in WsIds
    /\ readyState[w] = "OPEN"
    /\ readyState' = [readyState EXCEPT ![w] = "CLOSING"]
    /\ last' = Did("none")
    /\ UNCHANGED <<clients, ipcAssigned, connectedClients, taskIdToClientIdMap,
                   taskMap, taskState, pendingStarts, startedBy>>

\* ws.on("close")
wsOnClose(w) ==
    /\ w \in WsIds
    /\ readyState[w] \in {"OPEN", "CLOSING"}
    /\ readyState' = [readyState EXCEPT ![w] = "CLOSED"]
    /\ connectedClients' = Without(connectedClients, w)
    /\ last' = Did("none")
    /\ UNCHANGED <<clients, ipcAssigned, taskIdToClientIdMap, taskMap, taskState,
                   pendingStarts, startedBy>>

\* ws.on("error"): the socket is no longer usable.
wsOnError(w) ==
    /\ w \in WsIds
    /\ readyState[w] \in {"OPEN", "CLOSING"}
    /\ Includes(connectedClients, w)
    /\ readyState' = [readyState EXCEPT ![w] = "CLOSED"]
    /\ connectedClients' = Without(connectedClients, w)
    /\ last' = Did("none")
    /\ UNCHANGED <<clients, ipcAssigned, taskIdToClientIdMap, taskMap, taskState,
                   pendingStarts, startedBy>>

\* CliBridgeServer.sendMessageToClient(ws, message): written when OPEN.
sendMessageToClient(w) == readyState[w] = "OPEN"

\* handleCliMessage: parse, register the sender for the task the message
\* names, hand the message to the provider; any failure is reported back
\* to the sender.
handleCliMessage(w, parses, taskId, throws) ==
    /\ w \in WsIds
    /\ Includes(connectedClients, w)
    /\ readyState[w] = "OPEN"
    /\ taskId \in TaskIds \cup {Missing}
    /\ taskIdToClientIdMap' =
         IF parses /\ taskId # Missing
         THEN registerWebSocketClientForTask(taskIdToClientIdMap, taskId, w)
         ELSE taskIdToClientIdMap
    /\ last' = [Did("handleCliMessage") EXCEPT
                  !.wellFormed = parses,
                  !.forwarded = parses,
                  !.recipients = IF (~parses \/ throws) /\ sendMessageToClient(w)
                                 THEN {w} ELSE {}]
    /\ UNCHANGED <<clients, ipcAssigned, connectedClients, readyState, taskMap,
                   taskState, pendingStarts, startedBy>>

\* Registration of every connected bridge client, in key order.
RECURSIVE RegisterAll(_, _, _, _)
RegisterAll(m, taskId, ids, i) ==
    IF i > Len(ids) THEN m
    ELSE RegisterAll(registerWebSocketClientForTask(m, taskId, ids[i]), taskId, ids, i + 1)

\* CliBridgeServer.broadcastMessage of a message of the given type that
\* belongs to task t (NoTask: to none): a state message carries t as
\* currentTaskItem.id, any other message carries no task id.
broadcastMessage(type, t) ==
    /\ type \in {"state", "partialMessage"}
    /\ t = NoTask \/ (t \in TaskIds /\ Emitting(t))
    /\ type = "partialMessage" => t # NoTask
    /\ Len(connectedClients) > 0
    /\ LET registers == type = "state" /\ t # NoTask
           m == IF registers
                THEN RegisterAll(taskIdToClientIdMap, t, connectedClients, 1)
                ELSE taskIdToClientIdMap
           open == {w \in Elems(connectedClients) : readyState[w] = "OPEN"}
       IN /\ taskIdToClientIdMap' = m
          /\ connectedClients' = SelectSeq(connectedClients, LAMBDA w : w \in open)
          /\ last' = [Did("broadcast") EXCEPT
                        !.task = t,
                        !.known = registers,
                        !.subs = MapGetOrEmpty(m, t),
                        !.recipients = open]
    /\ UNCHANGED <<clients, ipcAssigned, readyState, taskMap, taskState,
                   pendingStarts, startedBy>>

(***************************************************************************)
(* The hosting process: one handler at a time.                             *)
(***************************************************************************)
Next ==
    \/ /\ \E c \in IpcIds : onConnect(c)
       /\ UNCHANGED consumerVars
    \/ /\ \E c \in IpcIds : onDisconnect(c)
       /\ UNCHANGED consumerVars
    \/ /\ \E c \in IpcIds : \E e \in EnvelopesFrom(c) :
             Assigned(c) /\ Len(clients) > 0 /\ onMessage(e)
       /\ UNCHANGED consumerVars
    \/ /\ \E e \in OtherEnvelopes : Len(clients) > 0 /\ onMessage(e)
       /\ UNCHANGED consumerVars
    \/ /\ \E t \in TaskIds : \E i \in 0..Len(pendingStarts) : clineCreated(t, i)
       /\ UNCHANGED consumerVars
    \/ /\ \E i \in 1..Len(pendingStarts) : StartNewTaskResume(i)
       /\ UNCHANGED consumerVars
    \/ /\ \E i \in 1..Len(pendingStarts) : StartNewTaskThrows(i)
       /\ UNCHANGED consumerVars
    \/ /\ \E i \in 1..Len(pendingStarts) : StartNewTaskNoId(i)
       /\ UNCHANGED consumerVars
    \/ /\ \E t \in TaskIds : taskStarted(t)
       /\ UNCHANGED consumerVars
    \/ /\ \E t \in TaskIds : \E content \in Contents : message(t, content)
       /\ UNCHANGED consumerVars
    \/ /\ \E t \in TaskIds : \E name \in PlainEventNames : plainEvent(t, name)
       /\ UNCHANGED consumerVars
    \/ /\ \E t \in TaskIds : \E name \in {"taskAborted", "taskCompleted"} : taskTerminal(t, name)
       /\ UNCHANGED consumerVars
    \/ /\ \E w \in FirstWsIds : \E cur \in TaskIds \cup {NoTask} : connection(w, cur)
       /\ UNCHANGED consumerVars
    \/ /\ \E w \in WsIds : wsClosing(w)
       /\ UNCHANGED consumerVars
    \/ /\ \E w \in WsIds : wsOnClose(w)
       /\ UNCHANGED consumerVars
    \/ /\ \E w \in WsIds : wsOnError(w)
       /\ UNCHANGED consumerVars
    \/ /\ \E w \in WsIds : \E parses \in BOOLEAN : \E taskId \in TaskIds \cup {Missing} :
             \E throws \in BOOLEAN : handleCliMessage(w, parses, taskId, throws)
       /\ UNCHANGED consumerVars
    \/ /\ \E type \in {"state", "partialMessage"} : \E t \in TaskIds \cup {NoTask} :
             broadcastMessage(type, t)
       /\ UNCHANGED consumerVars

(***************************************************************************)
(* The CLI process: IpcClient (src/unnamed/part_001) with the WebSocket    *)
(* objects it creates, and its consumer, which is either the Repl          *)
(* (src/roocli/src/repl.ts) or Scripting (src/unnamed/part_002), started   *)
(* by handleDefaultCommand (src/roocli/src/cli.ts).                        *)
(***************************************************************************)
MaxSockets == 2            \* WebSocket objects one run of the CLI creates
maxReconnectAttempts == 10

SocketIds == 1..MaxSockets
NoSocket == 0              \* this.ws = null
NoClientId == 0            \* this.clientId = null

\* The id the bridge's connection handler assigns to the connection behind
\* socket s (a fresh one for each connection).
AssignedId(s) == s

IpcClientInit ==
    /\ ipcClient = [ws |-> NoSocket, reconnectAttempts |-> 0,
                    reconnectTimeoutId |-> "null", isReconnecting |-> FALSE,
                    isConnected |-> FALSE, clientId |-> NoClientId]
    /\ sockets = [s \in SocketIds |->
                    [state |-> "unused", by |-> "none", clientIdMessage |-> FALSE]]
    /\ calls = [initial |-> [state |-> "idle", clientIdAtResolve |-> NoClientId,
                             socket |-> NoSocket],
                retry |-> "none"]
    /\ proc \in {[mode |-> m, listening |-> FALSE, status |-> "running"] :
                    m \in {"repl", "scripting"}}
    /\ clog = [lastEvent |-> "none", disconnectCalled |-> FALSE,
               scheduledAfterDisconnect |-> FALSE, connectedAfterDisconnect |-> FALSE,
               sent |-> "none", sentClientId |-> NoClientId, sentOn |-> NoSocket]

\* The CLI process as one value, for the handlers that call each other.
World ==
    [ipcClient |-> ipcClient, sockets |-> sockets, calls |-> calls,
     proc |-> proc, clog |-> clog]

Becomes(w) ==
    /\ ipcClient' = w.ipcClient
    /\ sockets' = w.sockets
    /\ calls' = w.calls
    /\ proc' = w.proc
    /\ clog' = w.clog

\* IpcClient.disconnect
disconnect(w) ==
    LET s == w.ipcClient.ws IN
    [w EXCEPT
       !.ipcClient = [@ EXCEPT !.reconnectTimeoutId = "null",
                               !.ws = NoSocket,
                               !.isConnected = FALSE,
                               !.isReconnecting = FALSE],
       !.sockets = IF s # NoSocket /\ w.sockets[s].state \in {"connecting", "open"}
                   THEN [@ EXCEPT ![s].state = "closing"]
                   ELSE @,
       !.clog = [@ EXCEPT !.disconnectCalled = TRUE]]

\* Scripting.complete as setupEventHandlers installs it: disconnect, then
\* resolve the promise of execute(), after which cli.ts calls process.exit.
\* (isComplete is true exactly when the process is no longer running.)
complete(w) ==
    IF w.proc.status = "running"
    THEN [disconnect(w) EXCEPT !.proc = [@ EXCEPT !.status = "exited"]]
    ELSE w

\* this.emit(event): the listeners of the consumer run inside the call.  An
\* "error" event without listener is thrown by EventEmitter and ends the
\* process.
emit(w, event) ==
    LET w1 == [w EXCEPT !.clog = [@ EXCEPT !.lastEvent = event]] IN
    IF ~w.proc.listening
    THEN IF event = "error" /\ w.proc.status = "running"
         THEN [w1 EXCEPT !.proc = [@ EXCEPT !.status = "crashed"]]
         ELSE w1
    ELSE IF w.proc.mode = "scripting" /\ event \in {"disconnected", "error"}
         THEN complete(w1)
         ELSE w1

\* A scheduleReconnect that does not test isReconnecting.
scheduleReconnect_Unguarded(w) ==
    IF w.ipcClient.reconnectAttempts >= maxReconnectAttempts
    THEN w
    ELSE [w EXCEPT
            !.ipcClient = [@ EXCEPT !.isReconnecting = TRUE,
                                    !.reconnectAttempts = @ + 1,
                                    !.reconnectTimeoutId = "armed"],
            !.clog = [@ EXCEPT !.scheduledAfterDisconnect =
                                   @ \/ w.clog.disconnectCalled]]

\* IpcClient.scheduleReconnect
scheduleReconnect(w) ==
    IF w.ipcClient.isReconnecting
         \/ w.ipcClient.reconnectAttempts >= maxReconnectAttempts
    THEN w
    ELSE [w EXCEPT
            !.ipcClient = [@ EXCEPT !.isReconnecting = TRUE,
                                    !.reconnectAttempts = @ + 1,
                                    !.reconnectTimeoutId = "armed"],
            !.clog = [@ EXCEPT !.scheduledAfterDisconnect =
                                   @ \/ w.clog.disconnectCalled]]

\* The promise of the connect() call `by` is resolved.  The CLI's own call
\* continues in handleDefaultCommand, which constructs the consumer and
\* with it the listeners; the timer's call continues into its finally.
resolve(w, by) ==
    IF by = "initial" /\ w.calls.initial.state = "pending"
    THEN [w EXCEPT !.calls.initial.state = "resolved",
                   !.calls.initial.clientIdAtResolve = w.ipcClient.clientId,
                   !.proc = [@ EXCEPT !.listening = TRUE]]
    ELSE IF by = "retry" /\ w.calls.retry = "pending"
    THEN [w EXCEPT !.calls.retry = "none",
                   !.ipcClient = [@ EXCEPT !.isReconnecting = FALSE]]
    ELSE w

\* The promise of the connect() call `by` is rejected, or the call throws.
\* The CLI's own call ends in the catch of handleDefaultCommand
\* (process.exit(1)); the timer's call ends in its catch and finally.
reject(w, by) ==
    IF by = "initial"
    THEN [w EXCEPT !.calls.initial.state = "rejected",
                   !.proc = [@ EXCEPT !.status = "exited"]]
    ELSE LET w1 == emit([w EXCEPT !.calls.retry = "none"], "error")
         IN [w1 EXCEPT !.ipcClient = [@ EXCEPT !.isReconnecting = FALSE]]

Running == proc.status = "running"

\* handleDefaultCommand: await ipcClient.connect().  connect() is not yet
\* connected and suspends in await readPortFromFile().
connect ==
    /\ Running
    /\ calls.initial.state = "idle"
    /\ ~ipcClient.isConnected
    /\ calls' = [calls EXCEPT !.initial.state = "readingPort"]
    /\ UNCHANGED <<ipcClient, sockets, proc, clog>>

Suspended(by) ==
    IF by = "initial" THEN calls.initial.state = "readingPort"
    ELSE calls.retry = "readingPort"

\* The socket object the next new WebSocket(...) returns.
NextSocket == CHOOSE s \in SocketIds :
                 /\ sockets[s].state = "unused"
                 /\ \A r \in SocketIds : sockets[r].state = "unused" => s <= r

PortOutcomes == {"null", "invalid", "port"}

\* connect() after await readPortFromFile(): no port (the call throws), a
\* port new WebSocket() rejects (the catch of the executor: reject, then
\* scheduleReconnect), or a socket with the four handlers attached.
connectResumes(by, outcome) ==
    /\ Running
    /\ Suspended(by)
    /\ outcome \in PortOutcomes
    /\ CASE outcome = "null" -> Becomes(reject(World, by))
         [] outcome = "invalid" ->
              LET w1 == [World EXCEPT !.ipcClient = [@ EXCEPT !.isConnected = FALSE,
                                                               !.ws = NoSocket]]
              IN Becomes(reject(scheduleReconnect(w1), by))
         [] outcome = "port" ->
              /\ \E s \in SocketIds : sockets[s].state = "unused"
              /\ LET s == NextSocket IN
                 Becomes([World EXCEPT
                    !.ipcClient = [@ EXCEPT !.ws = s],
                    !.sockets = [@ EXCEPT ![s] = [state |-> "connecting", by |-> by,
                                                  clientIdMessage |-> FALSE]],
                    !.calls = IF by = "initial"
                              THEN [@ EXCEPT !.initial.state = "pending",
                                             !.initial.socket = s]
                              ELSE [@ EXCEPT !.retry = "pending"],
                    !.clog = [@ EXCEPT !.connectedAfterDisconnect =
                                          @ \/ clog.disconnectCalled]])

\* An open handler that leaves reconnectAttempts as it is.
onOpen_KeepAttempts(s) ==
    /\ Running
    /\ sockets[s].state = "connecting"
    /\ LET w1 == [World EXCEPT
                    !.sockets = [@ EXCEPT ![s].state = "open",
                                          ![s].clientIdMessage = TRUE],
                    !.ipcClient = [@ EXCEPT !.isConnected = TRUE]]
       IN Becomes(resolve(emit(w1, "connected"), sockets[s].by))

\* ws.on("open"); the bridge's connection handler has written the clientId
\* message to the connection, which is still on its way.
onOpen(s) ==
    /\ Running
    /\ sockets[s].state = "connecting"
    /\ LET w1 == [World EXCEPT
                    !.sockets = [@ EXCEPT ![s].state = "open",
                                          ![s].clientIdMessage = TRUE],
                    !.ipcClient = [@ EXCEPT !.isConnected = TRUE,
                                            !.reconnectAttempts = 0]]
       IN Becomes(resolve(emit(w1, "connected"), sockets[s].by))

\* ws.on("message") for the clientId message of the connection.
onClientIdMessage(s) ==
    /\ Running
    /\ sockets[s].state = "open"
    /\ sockets[s].clientIdMessage
    /\ LET w1 == [World EXCEPT
                    !.sockets = [@ EXCEPT ![s].clientIdMessage = FALSE],
                    !.ipcClient = [@ EXCEPT !.clientId = AssignedId(s)]]
       IN Becomes(emit(w1, "message"))

\* ws.on("error"): the connection is refused, or an open one fails.
onError(s) ==
    /\ Running
    /\ sockets[s].state \in {"connecting", "open"}
    /\ Becomes(emit([World EXCEPT !.sockets = [@ EXCEPT ![s].state = "errored"]],
                    "error"))

CloseCodes == {1000, 1006}

\* ws.on("close")
onClose(s, code) ==
    /\ Running
    /\ sockets[s].state \in {"open", "errored", "closing"}
    /\ code \in CloseCodes
    /\ sockets[s].state = "errored" => code # 1000
    /\ LET w1 == [World EXCEPT
                    !.sockets = [@ EXCEPT ![s].state = "closed"],
                    !.ipcClient = [@ EXCEPT !.isConnected = FALSE,
                                            !.ws = NoSocket]]
           w2 == emit(w1, "disconnected")
       IN Becomes(IF code # 1000 THEN scheduleReconnect(w2) ELSE w2)

\* The callback of the timer scheduleReconnect set: emit, then await
\* this.connect(), which returns at once when connected.
reconnectTimeout ==
    /\ Running
    /\ ipcClient.reconnectTimeoutId = "armed"
    /\ LET w1 == emit([World EXCEPT
                         !.ipcClient = [@ EXCEPT !.reconnectTimeoutId = "fired"]],
                      "reconnecting")
       IN Becomes(IF w1.ipcClient.isConnected
                  THEN resolve([w1 EXCEPT !.calls.retry = "pending"], "retry")
                  ELSE [w1 EXCEPT !.calls.retry = "readingPort"])

\* IpcClient.sendMessage, called by the consumer (a line typed into the
\* Repl, Scripting.sendMessage).
sendMessage ==
    /\ Running
    /\ proc.listening
    /\ LET s == ipcClient.ws IN
       IF ~ipcClient.isConnected \/ s = NoSocket \/ sockets[s].state # "open"
       THEN clog' = [clog EXCEPT !.sent = "failed", !.sentClientId = NoClientId,
                                 !.sentOn = NoSocket]
       ELSE clog' = [clog EXCEPT !.sent = "sent",
                                 !.sentClientId = ipcClient.clientId,
                                 !.sentOn = s]
    /\ UNCHANGED <<ipcClient, sockets, calls, proc>>

\* Repl.exit, or Scripting.complete on completion or timeout: disconnect,
\* then the process ends.
exit ==
    /\ Running
    /\ proc.listening
    /\ Becomes(complete(World))

ClientNext ==
    \/ connect /\ UNCHANGED notClientVars
    \/ \E by \in {"initial", "retry"} : \E outcome \in PortOutcomes :
          connectResumes(by, outcome) /\ UNCHANGED notClientVars
    \/ \E s \in SocketIds : onOpen(s) /\ UNCHANGED notClientVars
    \/ \E s \in SocketIds : onClientIdMessage(s) /\ UNCHANGED notClientVars
    \/ \E s \in SocketIds : onError(s) /\ UNCHANGED notClientVars
    \/ \E s \in SocketIds : \E code \in CloseCodes : onClose(s, code) /\ UNCHANGED notClientVars
    \/ reconnectTimeout /\ UNCHANGED notClientVars
    \/ sendMessage /\ UNCHANGED notClientVars
    \/ exit /\ UNCHANGED notClientVars

(***************************************************************************)
(* The Repl's rendering of streamed content (src/roocli/src/repl.ts).      *)
(* Text is a sequence of UTF-16 code units.                                *)
(***************************************************************************)
MaxChainLen == 3   \* updates followed in one chain of growing contents

StreamTexts ==
    {<<65>>, <<65, 97>>, <<65, 97, 66>>, <<66, 66>>, <<32>>}  \* "A" "Aa" "AaB" "BB" " "

WhiteSpace == {9, 10, 11, 12, 13, 32}

\* content.trim() === ""
IsBlank(content) == \A i \in 1..Len(content) : content[i] \in WhiteSpace

NoMessageId == << >>   \* lastMessageId = null

\* Repl.generateMessageId: hash = ToInt32((hash << 5) - hash + char) over
\* the code units, kept as the two 16-bit halves of the 32-bit value.
RECURSIVE HashFrom(_, _, _)
HashFrom(hash, content, i) ==
    IF i > Len(content) THEN hash
    ELSE LET low == 31 * hash[2] + content[i]
             high == 31 * hash[1] + (low \div 65536)
         IN HashFrom(<<high % 65536, low % 65536>>, content, i + 1)

generateMessageId(content) == HashFrom(<<0, 0>>, content, 1)

\* Repl.isDuplicateMessage: the verdict and the lastMessageId it leaves.
isDuplicateMessage(r, content) ==
    IF content = << >>
    THEN [dup |-> FALSE, lastMessageId |-> r.lastMessageId]
    ELSE [dup |-> generateMessageId(content) = r.lastMessageId,
          lastMessageId |-> generateMessageId(content)]

Write(kind, text) == [kind |-> kind, text |-> text]

\* handleStreamedContent that writes the whole content at every update.
handleStreamedContent_PrintAll(r, content) ==
    [repl |-> [r EXCEPT !.hasDisplayedPrefix = TRUE,
                        !.currentStreamedMessage = content],
     writes |-> <<Write("text", content)>>]

\* Repl.handleStreamedContent: the fields afterwards and what was written to
\* stdout, in order.
handleStreamedContent(r, content) ==
    LET d == isDuplicateMessage(r, content)
        r1 == [r EXCEPT !.lastMessageId = d.lastMessageId]
    IN
    IF d.dup THEN [repl |-> r1, writes |-> << >>]
    ELSE
      LET label == IF ~r1.hasDisplayedPrefix THEN <<Write("label", << >>)>> ELSE << >>
          r2 == [r1 EXCEPT !.hasDisplayedPrefix = TRUE]
          acc == r2.currentStreamedMessage
      IN
      IF StartsWith(content, acc)
      THEN LET newContent == Substring(content, Len(acc)) IN
           IF Len(newContent) > 0
           THEN [repl |-> [r2 EXCEPT !.currentStreamedMessage = content],
                 writes |-> label \o <<Write("text", newContent)>>]
           ELSE [repl |-> r2, writes |-> label]
      ELSE IF StartsWith(acc, content)
      THEN [repl |-> r2, writes |-> label]
      ELSE LET break == IF Len(acc) > 0 THEN <<Write("newline", << >>)>> ELSE << >>
           IN IF Len(content) > 0
              THEN [repl |-> [r2 EXCEPT !.currentStreamedMessage = content],
                    writes |-> label \o break \o <<Write("text", content)>>]
              ELSE [repl |-> r2, writes |-> label \o break]

SayTypes == {"text", "completion_result", "reasoning", "error"}

\* Repl.handlePartialMessage for a say message: the fields afterwards, what
\* was written, whether a stream was initialised and whether the content
\* reached handleStreamedContent.
handlePartialMessage(r, say, content, partial) ==
    LET isStreamableType == say \in {"text", "ai_response", "completion_result"}
        init == isStreamableType /\ ~r.isStreaming
        r1 == IF init
              THEN [r EXCEPT !.isStreaming = TRUE,
                             !.currentStreamedMessage = << >>,
                             !.hasDisplayedPrefix = FALSE]
              ELSE r
        w1 == IF init THEN <<Write("newline", << >>)>> ELSE << >>
        quiet == [repl |-> r1, writes |-> w1, init |-> init, streamed |-> FALSE]
    IN
    IF IsBlank(content) THEN quiet
    ELSE IF ~(~partial \/ isStreamableType) THEN quiet
    ELSE IF isStreamableType
    THEN LET h == handleStreamedContent(r1, content)
         IN [repl |-> h.repl, writes |-> w1 \o h.writes, init |-> init,
             streamed |-> TRUE]
    ELSE IF say = "error"
    THEN [repl |-> [r1 EXCEPT !.hasDisplayedPrefix = FALSE, !.isStreaming = FALSE],
          writes |-> w1 \o <<Write("error", content)>>, init |-> init,
          streamed |-> FALSE]
    ELSE \* reasoning and the other kinds shown only when complete
         [repl |-> [r1 EXCEPT !.hasDisplayedPrefix = FALSE],
          writes |-> w1 \o <<Write(say, content)>>, init |-> init,
          streamed |-> FALSE]

ReplInit ==
    /\ repl = [isStreaming |-> FALSE, currentStreamedMessage |-> << >>,
               hasDisplayedPrefix |-> FALSE, lastMessageId |-> NoMessageId]
    /\ rlog = [op |-> "none", fed |-> << >>, chain |-> << >>, chainOut |-> << >>,
               closed |-> << >>]

RECURSIVE TextOf(_)
\* The text among writes.
TextOf(writes) ==
    IF writes = << >> THEN << >>
    ELSE (IF Head(writes).kind = "text" THEN Head(writes).text ELSE << >>)
            \o TextOf(Tail(writes))

\* The last two updates that reached handleStreamedContent with nothing in
\* between, oldest first.
Fed(prev, u) == IF prev = << >> THEN <<u>> ELSE <<prev[Len(prev)], u>>

\* ipcClient.on("message") with a partialMessage of type say.
partialMessage(say, content, partial) ==
    /\ say \in SayTypes
    /\ content \in StreamTexts
    /\ LET h == handlePartialMessage(repl, say, content, partial)
           first == h.init \/ rlog.op = "opened"
           u == [content |-> content, writes |-> h.writes, first |-> first,
                 before |-> repl, after |-> h.repl,
                 reopens |-> h.init /\ rlog.op = "terminal",
                 resumes |-> h.init /\ rlog.op = "interrupted",
                 closed |-> IF h.init /\ rlog.op = "terminal" THEN rlog.closed
                            ELSE << >>]
           grows == /\ ~first
                    /\ rlog.chain # << >>
                    /\ StartsWith(content, rlog.chain[Len(rlog.chain)])
       IN /\ h.streamed /\ grows => Len(rlog.chain) < MaxChainLen
          /\ repl' = h.repl
          /\ rlog' =
               IF ~h.streamed
               THEN [op |-> "other", fed |-> << >>,
                     chain |-> IF h.repl.isStreaming /\ ~h.init THEN rlog.chain ELSE << >>,
                     chainOut |-> IF h.repl.isStreaming /\ ~h.init THEN rlog.chainOut
                                  ELSE << >>,
                     closed |-> << >>]
               ELSE [op |-> "update",
                     fed |-> IF first THEN <<u>> ELSE Fed(rlog.fed, u),
                     chain |-> IF first THEN <<content>>
                               ELSE IF grows THEN Append(rlog.chain, content)
                               ELSE << >>,
                     chainOut |-> IF first THEN TextOf(h.writes)
                                  ELSE IF grows THEN rlog.chainOut \o TextOf(h.writes)
                                  ELSE << >>,
                     closed |-> << >>]

TerminalSignals == {"taskEvent", "state", "action"}

\* handleTaskEvent (taskCompleted / taskAborted), handleStateUpdate (final
\* state) and handleAction (taskCompleted / taskAborted).
terminalSignal(kind) ==
    /\ kind \in TerminalSignals
    /\ repl' = IF repl.isStreaming
               THEN [repl EXCEPT !.isStreaming = FALSE, !.hasDisplayedPrefix = FALSE]
               ELSE repl
    /\ rlog' = [op |-> IF repl.isStreaming THEN "terminal" ELSE "other",
                fed |-> << >>, chain |-> << >>, chainOut |-> << >>,
                closed |-> IF repl.isStreaming /\ rlog.fed # << >>
                           THEN rlog.fed[Len(rlog.fed)].content ELSE << >>]

\* rl.on("SIGINT") and Ctrl+Shift+C while streaming.
interrupt ==
    /\ repl.isStreaming
    /\ repl' = [repl EXCEPT !.isStreaming = FALSE,
                            !.currentStreamedMessage = << >>,
                            !.hasDisplayedPrefix = FALSE]
    /\ rlog' = [op |-> "interrupted", fed |-> << >>, chain |-> << >>, chainOut |-> << >>,
                closed |-> << >>]

\* Repl.startNewTask: the first line typed, or /new; sent tells whether
\* ipcClient.sendMessage went through.
startNewTask(blank, sent) ==
    /\ repl' = IF sent /\ ~blank
               THEN [repl EXCEPT !.lastMessageId = NoMessageId,
                                 !.isStreaming = TRUE,
                                 !.currentStreamedMessage = << >>,
                                 !.hasDisplayedPrefix = FALSE]
               ELSE [repl EXCEPT !.lastMessageId = NoMessageId]
    /\ rlog' = [op |-> IF sent /\ ~blank THEN "opened" ELSE "other",
                fed |-> << >>, chain |-> << >>, chainOut |-> << >>,
                closed |-> << >>]

\* Repl.sendResponse: a line typed for the current task.
sendResponse(sent) ==
    /\ repl' = IF sent
               THEN [repl EXCEPT !.lastMessageId = NoMessageId,
                                 !.isStreaming = TRUE,
                                 !.currentStreamedMessage = << >>,
                                 !.hasDisplayedPrefix = FALSE]
               ELSE repl
    /\ rlog' = [op |-> IF sent THEN "opened" ELSE "other",
                fed |-> << >>, chain |-> << >>, chainOut |-> << >>,
                closed |-> << >>]

ReplNext ==
    \/ \E say \in SayTypes : \E content \in StreamTexts : \E partial \in BOOLEAN :
          partialMessage(say, content, partial) /\ UNCHANGED notReplVars
    \/ \E kind \in TerminalSignals : terminalSignal(kind) /\ UNCHANGED notReplVars
    \/ interrupt /\ UNCHANGED notReplVars
    \/ \E blank \in BOOLEAN : \E sent \in BOOLEAN :
          startNewTask(blank, sent) /\ UNCHANGED notReplVars
    \/ \E sent \in BOOLEAN : sendResponse(sent) /\ UNCHANGED notReplVars

(***************************************************************************)
(* The Repl's handling of ask messages, typed lines and interrupts         *)
(* (src/roocli/src/repl.ts): the prompt rounds and the commands sent.      *)
(***************************************************************************)
MaxRounds == 2     \* prompt rounds one run of the Repl opens

NoTaskId == "null"               \* currentTaskId = null
AgentTaskIds == {"t1"}           \* ids the agent generated (taskCreated)
FallbackTaskId == "fallback"     \* `fallback-${Date.now()}`

\* "followup" and "tool" as code units, and ":".
AskTypeText(ask) ==
    IF ask = "followup" THEN <<102, 111, 108, 108, 111, 119, 117, 112>>
    ELSE <<116, 111, 111, 108>>

Colon == <<58>>

\* The ask messages the bridge delivers: the same question with two
\* suggestion lists, and a tool request.
Asks ==
    {[ask |-> "followup", text |-> <<65>>, suggestions |-> <<"yes">>],
     [ask |-> "followup", text |-> <<65>>, suggestions |-> <<"no">>],
     [ask |-> "tool", text |-> <<65, 97>>, suggestions |-> << >>]}

NoAsk == [ask |-> "none", text |-> << >>, suggestions |-> << >>]

\* An ask event as the log keeps it: fresh when lastAskMessageId was unset.
NoAskEvent == [ask |-> NoAsk, fresh |-> FALSE, opened |-> FALSE]

Undefined == <<0>>               \* a prompt ended without a value
Answers == {Undefined, <<32>>, <<121>>}     \* undefined, " ", "y"

CancelText == <<95, 95, 67, 65, 78, 67, 69, 76, 95, 95>>   \* "__CANCEL__"

Command(type, text, taskId) == [type |-> type, text |-> text, taskId |-> taskId]

\* isDuplicateAskMessage that never reports a duplicate.
isDuplicateAskMessage_Never(b, a) ==
    [dup |-> FALSE,
     lastAskMessageId |-> generateMessageId(AskTypeText(a.ask) \o Colon \o a.text)]

\* Repl.isDuplicateAskMessage: the verdict and the lastAskMessageId it leaves.
isDuplicateAskMessage(b, a) ==
    LET messageId == generateMessageId(AskTypeText(a.ask) \o Colon \o a.text)
    IN [dup |-> messageId = b.lastAskMessageId, lastAskMessageId |-> messageId]

\* Repl.handleInteractiveAsk up to its await prompts(...): the duplicate is
\* dropped, anything else sets isWaitingForUserInput and opens a prompt.
handleInteractiveAsk(b, a) ==
    LET d == isDuplicateAskMessage(b, a)
        b1 == [b EXCEPT !.lastAskMessageId = d.lastAskMessageId]
    IN IF d.dup THEN b1
       ELSE [b1 EXCEPT !.isWaitingForUserInput = TRUE,
                       !.prompts = Append(@, [ask |-> a, cancelled |-> FALSE]),
                       !.rounds = @ + 1]

RECURSIVE Listeners(_, _, _)
\* ipcClient.emit("message"): each of the n listeners setupEventHandlers
\* has registered runs handleIpcMessage for the ask.
Listeners(b, a, n) ==
    IF n = 0 THEN b ELSE Listeners(handleInteractiveAsk(b, a), a, n - 1)

\* sendResponse that sends nothing.
sendResponseOf_Silent(b, text, up, hasClientId) ==
    [broker |-> b, sent |-> << >>]

\* Repl.sendResponse: the fields afterwards and the commands that went out.
\* up: ipcClient.sendMessage does not throw.
sendResponseOf(b, text, up, hasClientId) ==
    LET fallback == b.currentTaskId = NoTaskId /\ b.hasCreatedInitialSession
        b1 == IF fallback THEN [b EXCEPT !.currentTaskId = FallbackTaskId] ELSE b
        reg1 == IF fallback /\ hasClientId /\ up
                THEN <<Command("registerClientId", << >>, FallbackTaskId)>>
                ELSE << >>
    IN IF ~up THEN [broker |-> b1, sent |-> reg1]
       ELSE [broker |-> [b1 EXCEPT !.isStreaming = TRUE],
             sent |-> reg1 \o <<Command("sendMessage", text, b1.currentTaskId)>>
                        \o (IF hasClientId
                            THEN <<Command("registerClientId", << >>, b1.currentTaskId)>>
                            ELSE << >>)]

\* Repl.startNewTask
startNewTaskOf(b, up) ==
    LET b1 == [b EXCEPT !.currentTaskId = NoTaskId,
                        !.isWaitingForUserInput = FALSE,
                        !.lastAskMessageId = NoMessageId]
    IN IF ~up THEN [broker |-> b1, sent |-> << >>]
       ELSE [broker |-> [b1 EXCEPT !.isStreaming = TRUE],
             sent |-> <<Command("newTask", <<121>>, NoTaskId)>>]

\* The finally of handleInteractiveAsk for n rounds: the flag is reset and
\* setupEventHandlers registers the listeners once more.
Finally(b, n) ==
    [b EXCEPT !.isWaitingForUserInput = FALSE,
              !.messageListeners = @ + n,
              !.prompts = << >>]

BrokerInit ==
    /\ broker = [lastAskMessageId |-> NoMessageId, isWaitingForUserInput |-> FALSE,
                 isStreaming |-> FALSE, currentTaskId |-> NoTaskId,
                 hasCreatedInitialSession |-> FALSE, prompts |-> << >>,
                 rounds |-> 0, messageListeners |-> 1, exited |-> FALSE]
    /\ blog = [op |-> "none", ask |-> NoAsk, lastAsk |-> NoAskEvent,
               prevAsk |-> NoAskEvent, opened |-> FALSE,
               awaiting |-> FALSE, sent |-> << >>, answer |-> Undefined,
               up |-> FALSE, cancelled |-> FALSE, rendered |-> 0, kept |-> TRUE]

Log(op) == [blog EXCEPT !.op = op, !.ask = NoAsk, !.opened = FALSE,
                        !.prevAsk = blog.lastAsk,
                        !.awaiting = broker.prompts # << >>, !.sent = << >>,
                        !.answer = Undefined, !.up = FALSE, !.cancelled = FALSE,
                        !.rendered = 0, !.kept = TRUE]

\* ipcClient.on("message") with a partialMessage of type ask.
askMessage(a, partial) ==
    /\ ~broker.exited
    /\ a \in Asks
    /\ LET b1 == IF partial THEN broker
                 ELSE Listeners(broker, a, broker.messageListeners)
       IN /\ b1.rounds <= MaxRounds
          /\ broker' = b1
          /\ blog' = IF partial THEN Log("partialAsk")
                     ELSE [Log("ask") EXCEPT
                             !.ask = a,
                             !.lastAsk =
                                 [ask |-> a,
                                  fresh |-> broker.lastAskMessageId = NoMessageId,
                                  opened |-> Len(b1.prompts) > Len(broker.prompts)],
                             !.opened = Len(b1.prompts) > Len(broker.prompts)]

\* Removes element i of s.
Remove(s, i) == SubSeq(s, 1, i - 1) \o SubSeq(s, i + 1, Len(s))

\* The prompt of round i ends with answer: the rest of handleInteractiveAsk.
promptEnds(i, answer, up, hasClientId) ==
    /\ ~broker.exited
    /\ i \in 1..Len(broker.prompts)
    /\ answer \in Answers
    /\ LET empty == answer = Undefined \/ IsBlank(answer)
           r == IF empty THEN [broker |-> broker, sent |-> << >>]
                ELSE sendResponseOf(broker, answer, up, hasClientId)
       IN /\ broker' = [Finally(r.broker, 1) EXCEPT
                           !.prompts = Remove(broker.prompts, i)]
          /\ blog' = [Log("promptEnds") EXCEPT
                         !.ask = broker.prompts[i].ask,
                         !.sent = r.sent, !.answer = answer, !.up = up,
                         !.cancelled = broker.prompts[i].cancelled]

\* process.stdin.on("keypress") with Ctrl+Shift+C.  abort: the prompts that
\* are open take the key as their cancel key and end without a value.
interruptKey(up, abort) ==
    /\ ~broker.exited
    /\ LET b1 == IF broker.isWaitingForUserInput
                 THEN IF up THEN [broker EXCEPT !.isWaitingForUserInput = FALSE]
                      ELSE broker
                 ELSE IF broker.isStreaming
                 THEN [broker EXCEPT !.isStreaming = FALSE]
                 ELSE broker
           sent == IF broker.isWaitingForUserInput /\ up
                   THEN <<Command("sendMessage", CancelText, broker.currentTaskId)>>
                   ELSE << >>
           b2 == [b1 EXCEPT !.prompts =
                     [k \in 1..Len(@) |-> [@[k] EXCEPT !.cancelled = TRUE]]]
       IN /\ broker' = IF abort THEN Finally(b2, Len(b2.prompts)) ELSE b2
          /\ blog' = [Log("interrupt") EXCEPT !.sent = sent, !.up = up]

\* Ctrl+C: the prompts that are open end without a value; rl.on("SIGINT")
\* runs when the readline interface sees the key (rlFires), which it does
\* whenever no prompt has paused it.
sigint(rlFires) ==
    /\ ~broker.exited
    /\ broker.prompts = << >> => rlFires
    /\ LET b1 == Finally(broker, Len(broker.prompts))
           b2 == IF ~rlFires THEN b1
                 ELSE IF broker.isStreaming
                 THEN [b1 EXCEPT !.isStreaming = FALSE,
                                 !.isWaitingForUserInput = FALSE]
                 ELSE [b1 EXCEPT !.exited = TRUE]
       IN /\ broker' = b2
          /\ blog' = [Log("interrupt") EXCEPT !.up = TRUE]

\* handleIpcMessage case taskCreated
taskCreated(t) ==
    /\ ~broker.exited
    /\ t \in AgentTaskIds
    /\ broker' = [broker EXCEPT !.currentTaskId = t]
    /\ blog' = Log("taskCreated")

NonStreamableSays == {"reasoning", "error"}

SayContent == <<66, 66>>     \* "BB"

RECURSIVE SayListeners(_, _, _, _, _)
\* ipcClient.emit("message") for a say message: each of the n listeners
\* setupEventHandlers has registered runs handlePartialMessage.
SayListeners(r, say, content, partial, n) ==
    IF n = 0 THEN [repl |-> r, writes |-> << >>]
    ELSE LET h == handlePartialMessage(r, say, content, partial)
             rest == SayListeners(h.repl, say, content, partial, n - 1)
         IN [repl |-> rest.repl, writes |-> h.writes \o rest.writes]

\* A say message of a kind that is not streamed arrives.
sayMessage(say, partial) ==
    /\ ~broker.exited
    /\ say \in NonStreamableSays
    /\ LET r0 == [repl EXCEPT !.isStreaming = broker.isStreaming]
           h == SayListeners(r0, say, SayContent, partial, broker.messageListeners)
       IN /\ broker' = [broker EXCEPT !.isStreaming = h.repl.isStreaming]
          /\ blog' = [Log(IF partial THEN "partialSay" ELSE "say") EXCEPT
                         !.rendered = Len(SelectSeq(h.writes, LAMBDA w : w.kind = say)),
                         !.kept = h.repl.currentStreamedMessage
                                    = r0.currentStreamedMessage]

LineKinds == {"message", "new"}

\* rl.on("line"): a message (handleMessage) or /new with a message.
line(kind, up, hasClientId) ==
    /\ ~broker.exited
    /\ broker.prompts = << >>
    /\ ~broker.isWaitingForUserInput
    /\ kind \in LineKinds
    /\ LET r == IF kind = "new" THEN startNewTaskOf(broker, up)
                ELSE IF broker.currentTaskId # NoTaskId
                THEN sendResponseOf(broker, <<121>>, up, hasClientId)
                ELSE IF ~broker.hasCreatedInitialSession
                THEN startNewTaskOf([broker EXCEPT !.hasCreatedInitialSession = TRUE], up)
                ELSE [broker |-> broker, sent |-> << >>]
       IN /\ broker' = r.broker
          /\ blog' = [Log("line") EXCEPT
                        !.sent = r.sent, !.up = up,
                        !.lastAsk = IF r.broker.lastAskMessageId = NoMessageId
                                    THEN NoAskEvent ELSE @]

\* A say message that is displayed (text, an error, ...) and the terminal
\* signals: what they do to isStreaming and isWaitingForUserInput.
InboundKinds == {"content", "terminal"}

inbound(kind) ==
    /\ ~broker.exited
    /\ kind \in InboundKinds
    /\ broker' = IF kind = "content" THEN [broker EXCEPT !.isStreaming = TRUE]
                 ELSE IF broker.isStreaming
                 THEN [broker EXCEPT !.isStreaming = FALSE,
                                     !.isWaitingForUserInput = FALSE]
                 ELSE broker
    /\ blog' = Log(kind)

BrokerNext ==
    \/ \E a \in Asks : \E partial \in BOOLEAN : askMessage(a, partial) /\ UNCHANGED notBrokerVars
    \/ \E i \in 1..MaxRounds : \E answer \in Answers : \E up \in BOOLEAN : \E hasClientId \in BOOLEAN :
          promptEnds(i, answer, up, hasClientId) /\ UNCHANGED notBrokerVars
    \/ \E up \in BOOLEAN : \E abort \in BOOLEAN : interruptKey(up, abort) /\ UNCHANGED notBrokerVars
    \/ \E rlFires \in BOOLEAN : sigint(rlFires) /\ UNCHANGED notBrokerVars
    \/ \E t \in AgentTaskIds : taskCreated(t) /\ UNCHANGED notBrokerVars
    \/ \E kind \in LineKinds : \E up \in BOOLEAN : \E hasClientId \in BOOLEAN :
          line(kind, up, hasClientId) /\ UNCHANGED notBrokerVars
    \/ \E kind \in InboundKinds : inbound(kind) /\ UNCHANGED notBrokerVars

\* The prompt rounds together with the say messages that arrive between
\* and during them.
RoundsNext ==
    \/ \E a \in Asks : \E partial \in BOOLEAN : askMessage(a, partial) /\ UNCHANGED notBrokerVars
    \/ \E i \in 1..MaxRounds : \E answer \in Answers : \E up \in BOOLEAN : \E hasClientId \in BOOLEAN :
          promptEnds(i, answer, up, hasClientId) /\ UNCHANGED notBrokerVars
    \/ \E kind \in InboundKinds : inbound(kind) /\ UNCHANGED notBrokerVars
    \/ \E say \in NonStreamableSays : \E partial \in BOOLEAN :
          sayMessage(say, partial) /\ UNCHANGED notBrokerVars

(***************************************************************************)
(* Scripting (src/unnamed/part_002): one non-interactive invocation of the *)
(* CLI over a connected IpcClient.                                         *)
(***************************************************************************)
NoTimeout == "null"

\* The id the bridge assigns the connection.
ScriptClientIds == {1}

ScriptTexts == {<<65>>, <<65, 97>>}     \* "A" "Aa"

NoCause == "none"

\* The messages the extension sends a CLI client, by what Scripting tells
\* apart: partial say ai_response / tool_execution / text, partial ask, a
\* state whose last message is the final answer or not, the actions, the
\* session id, the client id, and the task events.
ScriptMessageKinds ==
    {"aiResponse", "toolExecution", "sayText", "ask", "finalState", "state",
     "didBecomeVisible", "welcome", "taskCreated", "clientId",
     "taskCompleted", "taskStarted"}

\* IpcClient.disconnect(): the retry timer is cleared, the socket is closed
\* and forgotten.
disconnectOf(s) ==
    [s EXCEPT !.reconnectTimeoutId = FALSE,
              !.socket = IF s.ws = "socket" /\ s.socket = "OPEN" THEN "CLOSING" ELSE s.socket,
              !.ws = "null",
              !.isConnected = FALSE,
              !.isReconnecting = FALSE]

\* this.complete, as setupEventHandlers replaces it.
completeOf(s, exitCode) ==
    IF s.isComplete THEN s
    ELSE LET s1 == [s EXCEPT !.isComplete = TRUE,
                             !.exitCode = exitCode,
                             !.timeoutId = NoTimeout]
             s2 == disconnectOf(s1)
         IN [s2 EXCEPT !.resolved = Append(s2.resolved, exitCode)]

\* The first cause that occurred.
Cause(c) == [slog EXCEPT !.op = c, !.first = IF slog.first = NoCause THEN c ELSE slog.first]

\* ipcClient.sendMessage of the newTask command: it throws when the client
\* is not connected, and otherwise hands the frame to the socket.
trySend(s) ==
    IF ~s.isConnected \/ s.ws = "null"
    THEN [script |-> completeOf([s EXCEPT !.phase = "failed"], 1), failed |-> TRUE]
    ELSE [script |-> [s EXCEPT !.phase = "sending"], failed |-> FALSE]

ScriptInit ==
    /\ script = [isComplete |-> FALSE, exitCode |-> 0, timeoutId |-> NoTimeout,
                 currentTaskId |-> NoTaskId, isStreaming |-> FALSE,
                 currentStreamedMessage |-> << >>, phase |-> "constructed",
                 isConnected |-> TRUE, ws |-> "socket", socket |-> "OPEN",
                 clientId |-> NoClientId, reconnectTimeoutId |-> FALSE,
                 isReconnecting |-> FALSE, resolved |-> << >>]
    /\ slog = [op |-> "init", first |-> NoCause, registered |-> FALSE]

\* execute(): the listeners, the timer, and the start of sendMessage().
\* handleDefaultCommand calls it in the turn in which connect() resolved, so
\* the bridge's clientId message has not been handled yet.
execute ==
    /\ script.phase = "constructed"
    /\ LET s1 == [script EXCEPT !.timeoutId = "set"] IN
       IF s1.clientId = NoClientId
       THEN /\ script' = [s1 EXCEPT !.phase = "waiting"]
            /\ slog' = [slog EXCEPT !.op = "execute"]
       ELSE LET r == trySend(s1) IN
            /\ script' = r.script
            /\ slog' = IF r.failed THEN Cause("sendFailure") ELSE [slog EXCEPT !.op = "execute"]

\* The 500 ms wait of sendMessage() is over.
afterWait ==
    /\ script.phase = "waiting"
    /\ LET r == trySend(script) IN
       /\ script' = r.script
       /\ slog' = IF r.failed THEN Cause("sendFailure") ELSE [slog EXCEPT !.op = "afterWait"]

\* The callback of ws.send for the newTask command.
sendCallback(error) ==
    /\ script.phase = "sending"
    /\ IF error
       THEN /\ script' = completeOf([script EXCEPT !.phase = "failed"], 1)
            /\ slog' = Cause("sendFailure")
       ELSE /\ script' = [script EXCEPT !.phase = "sent"]
            /\ slog' = [slog EXCEPT !.op = "sent"]

\* The timer of execute() fires.
timeoutExpires ==
    /\ script.timeoutId = "set"
    /\ script' = IF ~script.isComplete THEN completeOf(script, 1) ELSE script
    /\ slog' = Cause("timeout")

\* The socket's close event: the client forgets the socket, emits
\* "disconnected" and, unless the close was clean, schedules a retry.
disconnected(clean) ==
    /\ script.phase # "constructed"
    /\ script.socket # "CLOSED"
    /\ LET s1 == [script EXCEPT !.isConnected = FALSE, !.ws = "null", !.socket = "CLOSED"]
           s2 == completeOf(s1, 1)
       IN script' = IF clean THEN s2
                    ELSE [s2 EXCEPT !.isReconnecting = TRUE, !.reconnectTimeoutId = TRUE]
    /\ slog' = Cause("disconnected")

\* The socket's error event, or a frame that does not parse: "error".
ipcError ==
    /\ script.phase # "constructed"
    /\ script.socket # "CLOSED"
    /\ script' = completeOf(script, 1)
    /\ slog' = Cause("error")

\* Scripting.handlePartialMessage for say ai_response.
scriptStream(s, content) ==
    [s EXCEPT !.isStreaming = TRUE, !.currentStreamedMessage = content]

\* The client's and Scripting's handlers of one message.
ipcMessage(kind, content, t, c) ==
    /\ script.phase # "constructed"
    /\ script.socket # "CLOSED"
    /\ script' =
         CASE kind = "aiResponse" -> scriptStream(script, content)
           [] kind = "toolExecution" -> [script EXCEPT !.isStreaming = FALSE]
           [] kind = "ask" -> completeOf(script, 1)
           [] kind \in {"finalState", "didBecomeVisible"} -> completeOf(script, 0)
           [] kind = "taskCreated" -> [script EXCEPT !.currentTaskId = t]
           [] kind = "clientId" -> [script EXCEPT !.clientId = c]
           [] OTHER -> script
    /\ slog' =
         LET l == CASE kind = "ask" -> Cause("ask")
                    [] kind \in {"finalState", "didBecomeVisible", "taskCompleted"} -> Cause("terminal")
                    [] OTHER -> [slog EXCEPT !.op = kind]
         IN [l EXCEPT !.op = kind,
                      !.registered = kind = "taskCreated" /\ script.clientId # NoClientId
                                       /\ script.isConnected /\ script.ws # "null"]

ScriptNext ==
    \/ execute /\ UNCHANGED notScriptVars
    \/ afterWait /\ UNCHANGED notScriptVars
    \/ \E error \in BOOLEAN : sendCallback(error) /\ UNCHANGED notScriptVars
    \/ timeoutExpires /\ UNCHANGED notScriptVars
    \/ \E clean \in BOOLEAN : disconnected(clean) /\ UNCHANGED notScriptVars
    \/ ipcError /\ UNCHANGED notScriptVars
    \/ \E kind \in ScriptMessageKinds : \E content \in ScriptTexts :
         \E t \in AgentTaskIds : \E c \in ScriptClientIds :
            ipcMessage(kind, content, t, c) /\ UNCHANGED notScriptVars

Start == Init /\ IpcClientInit /\ ReplInit /\ BrokerInit /\ ScriptInit

allVars == <<vars, clientVars, replVars, brokerVars, scriptVars>>

Spec == Start /\ [][Next]_allVars

ClientSpec == Start /\ [][ClientNext]_allVars

ReplSpec == Start /\ [][ReplNext]_allVars

BrokerSpec == Start /\ [][BrokerNext]_allVars

ScriptSpec == Start /\ [][ScriptNext]_allVars

RoundsSpec == Start /\ [][RoundsNext]_allVars

(***************************************************************************)
(* A CLI client of the bridge that loses its connection and connects       *)
(* again: the bridge gives the second connection the next id.              *)
(***************************************************************************)
\* The connection handler draws the ids in order; the client connects
\* again after its earlier connection has closed.
Reconnects(w) ==
    \E i \in 1..Len(WsOrder) :
        /\ WsOrder[i] = w
        /\ \A j \in 1..(i - 1) : readyState[WsOrder[j]] = "CLOSED"

ReconnectNext ==
    \/ /\ \E w \in WsIds : \E cur \in TaskIds \cup {NoTask} :
             Reconnects(w) /\ connection(w, cur)
       /\ UNCHANGED consumerVars
    \/ /\ \E w \in WsIds : wsClosing(w)
       /\ UNCHANGED consumerVars
    \/ /\ \E w \in WsIds : wsOnClose(w)
       /\ UNCHANGED consumerVars
    \/ /\ \E w \in WsIds : wsOnError(w)
       /\ UNCHANGED consumerVars
    \/ /\ \E w \in WsIds : \E parses \in BOOLEAN : \E taskId \in TaskIds \cup {Missing} :
             \E throws \in BOOLEAN : handleCliMessage(w, parses, taskId, throws)
       /\ UNCHANGED consumerVars
    \/ /\ \E t \in TaskIds : clineCreated(t, 0)
       /\ UNCHANGED consumerVars
    \/ /\ \E t \in TaskIds : taskStarted(t)
       /\ UNCHANGED consumerVars
    \/ /\ \E t \in TaskIds : \E content \in Contents : message(t, content)
       /\ UNCHANGED consumerVars
    \/ /\ \E t \in TaskIds : \E name \in {"taskAborted", "taskCompleted"} : taskTerminal(t, name)
       /\ UNCHANGED consumerVars

ReconnectSpec == Start /\ [][ReconnectNext]_allVars



(***************************************************************************)
(* Properties.                                                             *)
(***************************************************************************)
\* The connections an emission wrote to, with multiplicity.
Writes(c) == {i \in 1..Len(last.attempts) : last.attempts[i].conn = c /\ last.attempts[i].ok}

InRegistry(c) == Includes(clients, c) \/ Includes(connectedClients, c)

\* The connection was handed out and has since closed.
Closed(c) ==
    \/ c \in IpcIds /\ Assigned(c) /\ ~Includes(clients, c)
    \/ c \in WsIds /\ readyState[c] = "CLOSED"

\* C1: for every event emitted for a task with a non-empty subscription,
\* each subscriber whose channel is open receives exactly one envelope.
C1_ExactlyOncePerSubscriber ==
    (last.op = "emit" /\ last.known) =>
        \A c \in LiveSubscribers(last.subs) : Cardinality(Writes(c)) = 1

\* C2: an event emitted for a task without subscription entry reaches every
\* connected client exactly once, and the entry created for the task is the
\* set of connected clients (with the default subscriber).
C2_UnknownTaskReachesAllConnected ==
    (last.op = "emit" /\ ~last.known) =>
        /\ \A c \in Elems(clients) : Cardinality(Writes(c)) = 1
        /\ Elems(last.subs) \ {WEBVIEW_CLIENT_ID} = Elems(clients)

\* C3: every non-empty subscription set contains the default subscriber.
C3_DefaultSubscriberInEverySet ==
    \A t \in DOMAIN taskIdToClientIdMap :
        taskIdToClientIdMap[t] # << >> =>
            Includes(taskIdToClientIdMap[t], WEBVIEW_CLIENT_ID)

\* C4 (as claimed): whatever a connection receives of a task, by sendIpcEvent
\* or by a bridge broadcast, it receives as a member of the task's
\* subscription set at that moment.
C4_OnlySubscribersReceive ==
    /\ last.op = "emit" =>
         \A c \in ConnIds : Writes(c) # {} => Includes(last.subs, SubscriberName(c))
    /\ (last.op = "broadcast" /\ last.task # NoTask) =>
         \A c \in last.recipients : Includes(last.subs, SubscriberName(c))

\* C4 (amended): sendIpcEvent writes an event of a task only to members of
\* the task's subscription set, and a bridge broadcast of a state message
\* that names a task reaches only connections that are members of that
\* task's set once the broadcast has registered them.
C4_DispatchOnlyToSubscribers ==
    /\ last.op = "emit" =>
         \A c \in ConnIds : Writes(c) # {} => Includes(last.subs, SubscriberName(c))
    /\ (last.op = "broadcast" /\ last.task # NoTask /\ last.known) =>
         \A c \in last.recipients : Includes(last.subs, SubscriberName(c))

\* C4 witness: an event was written to a subscriber while another connection,
\* open and not subscribed, got nothing.
C4_Witness ==
    /\ last.op = "emit"
    /\ \E c \in ConnIds : Writes(c) # {}
    /\ \E c \in ConnIds :
         /\ InRegistry(c)
         /\ c \in WsIds => readyState[c] = "OPEN"
         /\ ~Includes(last.subs, SubscriberName(c))
         /\ Writes(c) = {}

\* C5: a connection that has closed is a member of no subscription set.
C5_ClosedClientUnsubscribed ==
    \A c \in ConnIds :
        Closed(c) =>
            \A t \in DOMAIN taskIdToClientIdMap :
                ~Includes(taskIdToClientIdMap[t], SubscriberName(c))

\* C6: no key of the subscription table is a task that has reached a
\* terminal state.
C6_NoEntryForEndedTask ==
    \A t \in DOMAIN taskIdToClientIdMap : t \in TaskIds /\ taskState[t] # "ended"

\* C7: a task started on behalf of an IPC client has that client in its
\* subscription set while the task is live, every event emitted for the live
\* task is dispatched over an existing entry and written to the client while
\* it is connected, and a start that fails leaves the table as it was.
C7_StartRegistersOriginator ==
    /\ [](\A t \in TaskIds :
            (startedBy[t] # "" /\ taskState[t] = "live") =>
                /\ MapHas(taskIdToClientIdMap, t)
                /\ Includes(taskIdToClientIdMap[t], startedBy[t]))
    /\ []((/\ last.op = "emit"
           /\ last.task \in TaskIds
           /\ last.wasLive
           /\ startedBy[last.task] # ""
           /\ Includes(clients, startedBy[last.task])) =>
              /\ last.known
              /\ Cardinality(Writes(startedBy[last.task])) = 1)
    /\ [][last'.op = "startFailed" => UNCHANGED taskIdToClientIdMap]_vars

\* C7 witness: the completion event of a task started by a connected IPC
\* client was written to that client.
C7_Witness ==
    /\ last.op = "emit"
    /\ last.task \in TaskIds
    /\ last.wasLive
    /\ taskState[last.task] = "ended"
    /\ startedBy[last.task] # ""
    /\ Writes(startedBy[last.task]) # {}

\* C8: an inbound envelope that is not an object or does not match
\* ipcMessageSchema reaches no listener and leaves the client registry, the
\* subscription table and the pending commands as they were.
C8_InvalidEnvelopeDropped ==
    [][(last'.op = "onMessage" /\ ~last'.wellFormed) =>
          /\ ~last'.forwarded
          /\ UNCHANGED <<clients, ipcAssigned, connectedClients, readyState,
                         taskIdToClientIdMap, taskMap, pendingStarts>>]_vars

\* C8 witness: an invalid envelope was dropped while a client was connected
\* and a task had subscribers.
C8_Witness ==
    /\ last.op = "onMessage"
    /\ ~last.wellFormed
    /\ ~last.forwarded
    /\ clients # << >>
    /\ DOMAIN taskIdToClientIdMap # {}

\* C9: every dispatch makes one pass for each member of the subscription
\* list, in the order of the list, whatever happened to the members before.
C9_DispatchCoversWholeList ==
    last.op = "emit" =>
        /\ Len(last.attempts) = Len(last.subs)
        /\ \A i \in 1..Len(last.subs) : last.attempts[i].to = last.subs[i]

\* C10: a client to which a write failed during dispatch is no longer in
\* the registry of its transport when the dispatch is over.
C10_FailedClientEvicted ==
    last.op = "emit" =>
        \A i \in 1..Len(last.attempts) :
            (/\ last.attempts[i].conn \in ConnIds
             /\ last.attempts[i].kind # "nothing"
             /\ ~last.attempts[i].ok) => ~InRegistry(last.attempts[i].conn)

\* The connections a handler wrote to, on either transport.
WrittenTo(l) ==
    {l.attempts[i].conn : i \in {j \in 1..Len(l.attempts) : l.attempts[j].ok}}
        \cup l.recipients

\* The kind of the first message a handler wrote to connection c.
FirstKindTo(l, c) ==
    LET is == {i \in 1..Len(l.attempts) : l.attempts[i].conn = c /\ l.attempts[i].ok}
    IN IF is = {} THEN "nothing"
       ELSE l.attempts[CHOOSE i \in is : \A j \in is : i <= j].kind

\* C11: the handler that puts a connection into the registry of its transport
\* writes the acknowledge (Ack on the IPC socket, clientId on the bridge)
\* to it first, and no handler writes to a connection that is not yet in the
\* registry; so nothing reaches a client before its acknowledge.
C11_AckIsFirstMessage ==
    [][\A c \in ConnIds :
          /\ (~InRegistry(c) /\ InRegistry(c)') =>
                /\ last'.op \in {"onConnect", "connection"}
                /\ FirstKindTo(last', c) \in {"Ack", "clientId"}
          /\ (c \in WrittenTo(last') /\ last'.op # "none") =>
                InRegistry(c) \/ InRegistry(c)']_vars

\* C11 witness: a bridge client connected while a task was current; it was
\* registered for the task and written the clientId message, then the welcome.
C11_Witness ==
    /\ last.op = "connection"
    /\ Len(last.attempts) = 2
    /\ last.attempts[1].kind = "clientId"
    /\ \E t \in DOMAIN taskIdToClientIdMap :
         \E w \in WsIds : Includes(taskIdToClientIdMap[t], SubscriberName(w))

\* C12: when the connect() call of the CLI is resolved, the clientId message
\* of the connection has been received and this.clientId is the id the
\* bridge assigned to that connection.
C12_ResolvedMeansAcknowledged ==
    calls.initial.state = "resolved" =>
        calls.initial.clientIdAtResolve = AssignedId(calls.initial.socket)

\* C13: when the socket of the CLI's connect() call has failed without ever
\* opening (it closed, or the process ended on its error), the promise of
\* the call is settled: it does not stay pending.
C13_RefusedConnectRejects ==
    LET s == calls.initial.socket IN
    (/\ s # NoSocket
     /\ \/ sockets[s].state = "closed"
        \/ sockets[s].state = "errored" /\ ~Running) =>
        calls.initial.state \in {"resolved", "rejected"}

\* The session can do nothing more by itself: not connected, no socket alive,
\* no timer armed, no connect() reading the port, and nobody disconnected it.
Stalled ==
    /\ Running
    /\ proc.listening
    /\ ~clog.disconnectCalled
    /\ ~ipcClient.isConnected
    /\ ipcClient.reconnectTimeoutId # "armed"
    /\ calls.retry # "readingPort"
    /\ \A s \in SocketIds : sockets[s].state \in {"unused", "closed"}

\* C14: the retries since the last successful connect never exceed
\* maxReconnectAttempts, and when the retries have ended without a
\* connection the last thing the consumer was told is an error.
C14_BoundedRetryThenFatal ==
    /\ ipcClient.reconnectAttempts <= maxReconnectAttempts
    /\ (Stalled /\ ipcClient.reconnectAttempts > 0) => clog.lastEvent = "error"

\* C15: once disconnect() has been called, scheduleReconnect arms no timer
\* and connect() opens no socket.
C15_NoReconnectAfterDisconnect ==
    clog.disconnectCalled =>
        /\ ~clog.scheduledAfterDisconnect
        /\ ~clog.connectedAfterDisconnect

\* C16: every command written to a socket carries the id the bridge assigned
\* to the connection of that socket.
C16_CommandsCarryCurrentClientId ==
    clog.sent = "sent" => clog.sentClientId = AssignedId(clog.sentOn)

\* The two updates rendered last, one straight after the other, in one stream.
Pair == rlog.op = "update" /\ Len(rlog.fed) = 2 /\ ~rlog.fed[2].first

HasWrite(writes, kind) == \E i \in 1..Len(writes) : writes[i].kind = kind

C18_SuffixLaw ==
    rlog.op = "update" /\ rlog.chain # << >>
      => /\ rlog.chainOut = rlog.chain[Len(rlog.chain)]
         /\ repl.currentStreamedMessage = rlog.chain[Len(rlog.chain)]

\* C19: for two non-blank streamable contents a then b rendered one straight
\* after the other, neither a prefix of the other, b is written in full after
\* a line break and currentStreamedMessage ends equal to b; a, when it opened
\* the stream, was written in full.
C19_DivergentContentReprinted ==
    (/\ Pair
     /\ ~StartsWith(rlog.fed[1].content, rlog.fed[2].content)
     /\ ~StartsWith(rlog.fed[2].content, rlog.fed[1].content))
      => /\ rlog.fed[1].first => TextOf(rlog.fed[1].writes) = rlog.fed[1].content
         /\ TextOf(rlog.fed[2].writes) = rlog.fed[2].content
         /\ HasWrite(rlog.fed[2].writes, "newline")
         /\ repl.currentStreamedMessage = rlog.fed[2].content

\* C20: once a terminal signal has closed a stream, the Repl is not
\* streaming, currentStreamedMessage is empty, hasDisplayedPrefix is false
\* and lastMessageId is unset; and the first content of the stream opened
\* next is written in full.
C20_TerminalResetsStream ==
    /\ rlog.op = "terminal"
         => /\ ~repl.isStreaming
            /\ repl.currentStreamedMessage = << >>
            /\ ~repl.hasDisplayedPrefix
            /\ repl.lastMessageId = NoMessageId
    /\ rlog.op = "update" /\ rlog.fed[Len(rlog.fed)].reopens
         => TextOf(rlog.fed[Len(rlog.fed)].writes) = rlog.fed[Len(rlog.fed)].content

\* C30: reconnectAttempts never exceeds maxReconnectAttempts, and it is zero
\* whenever the client is connected (isConnected, and whenever the current
\* socket is open): the open handler resets it, so attempts are counted per
\* outage.
C30_AttemptsBoundedAndResetOnOpen ==
    /\ ipcClient.reconnectAttempts <= maxReconnectAttempts
    /\ ipcClient.isConnected => ipcClient.reconnectAttempts = 0
    /\ ipcClient.ws # NoSocket /\ sockets[ipcClient.ws].state = "open"
         => ipcClient.reconnectAttempts = 0

\* Connected again after an outage that was counted.
C30_Witness ==
    /\ ipcClient.isConnected
    /\ ipcClient.reconnectAttempts = 0
    /\ ipcClient.ws # NoSocket
    /\ sockets[ipcClient.ws].state = "open"
    /\ sockets[ipcClient.ws].by = "retry"
    /\ \E s \in SocketIds : sockets[s].state = "closed"

\* C27: an interrupt while streaming leaves the Repl not streaming with
\* currentStreamedMessage empty, hasDisplayedPrefix false and lastMessageId
\* unset, and the content of the interrupted stream that arrives afterwards
\* writes nothing.
C27_InterruptStopsRendering ==
    /\ rlog.op = "interrupted"
         => /\ ~repl.isStreaming
            /\ repl.currentStreamedMessage = << >>
            /\ ~repl.hasDisplayedPrefix
            /\ repl.lastMessageId = NoMessageId
    /\ rlog.op = "update" /\ rlog.fed[Len(rlog.fed)].resumes
         => rlog.fed[Len(rlog.fed)].writes = << >>

SentOfType(sent, type) == SelectSeq(sent, LAMBDA c : c.type = type)

C22_AskAfterRoundPromptsAgain ==
    blog.op = "ask" /\ ~blog.awaiting => blog.opened

\* C23: at most one prompt is open at any time, and nothing is displayed
\* while a prompt is open.
C23_OnePromptAtATime ==
    /\ Len(broker.prompts) <= 1
    /\ ~(blog.op = "content" /\ blog.awaiting)

\* C24: a prompt round that ends with an undefined or blank answer sends no
\* command; one that ends with any other answer, the client being connected,
\* sends exactly one sendMessage command, whose text is that answer.
C24_AnswerSentIffNonEmpty ==
    blog.op = "promptEnds"
      => IF blog.answer = Undefined \/ IsBlank(blog.answer)
         THEN blog.sent = << >>
         ELSE blog.up
                => /\ Len(SentOfType(blog.sent, "sendMessage")) = 1
                   /\ SentOfType(blog.sent, "sendMessage")[1].text = blog.answer

C24_Witness ==
    /\ blog.op = "promptEnds"
    /\ blog.up
    /\ blog.answer = <<121>>
    /\ Len(SentOfType(blog.sent, "sendMessage")) = 1
    /\ SentOfType(blog.sent, "sendMessage")[1].text = <<121>>

\* C25: every sendMessage command the Repl sends (an answer, a typed
\* continuation, the cancellation) carries a task id the agent generated.
C25_ContinuationCarriesAgentTaskId ==
    \A k \in 1..Len(SentOfType(blog.sent, "sendMessage")) :
        SentOfType(blog.sent, "sendMessage")[k].taskId \in AgentTaskIds

\* C26: an interrupt while a prompt is open, the client being connected,
\* sends exactly the one cancellation command and leaves no prompt open and
\* isWaitingForUserInput false; the round it interrupted sends no answer
\* afterwards.
C26_InterruptWhileAwaitingCancels ==
    /\ blog.op = "interrupt" /\ blog.awaiting /\ blog.up
         => /\ blog.sent = <<Command("sendMessage", CancelText, broker.currentTaskId)>>
            /\ broker.prompts = << >>
            /\ ~broker.isWaitingForUserInput
    /\ blog.op = "promptEnds" /\ blog.cancelled
         => SentOfType(blog.sent, "sendMessage") = << >>

\* The passes an emission made for subscriber name.
PassesFor(name) == {i \in 1..Len(last.attempts) : last.attempts[i].to = name}

\* C28: when a task ends, its terminal event is dispatched to the default
\* subscriber, and a client that was subscribed to the task, lost its
\* connection and has connected again receives it on its new connection.
C28_CompletionReachesReconnectedClient ==
    last.op = "emit" /\ last.released
      => /\ PassesFor(WEBVIEW_CLIENT_ID) # {}
         /\ \A i \in 1..Len(WsOrder) : \A j \in (i + 1)..Len(WsOrder) :
              (/\ Includes(last.subs, SubscriberName(WsOrder[i]))
               /\ readyState[WsOrder[i]] = "CLOSED"
               /\ readyState[WsOrder[j]] = "OPEN"
               /\ Includes(connectedClients, WsOrder[j]))
                 => Writes(WsOrder[j]) # {}

\* The exit code the invocation reports for a cause.
CauseCode(c) == IF c = "terminal" THEN 0 ELSE 1

\* C29: once a cause has occurred (a completion signal, the timeout, a
\* disconnection, a transport error, a failed send, an ask), the invocation
\* has resolved exactly once with the code of the first cause, causes that
\* occur later do not change it, the timer is cleared and the session is
\* disconnected.
C29_ResolvesOnceWithFirstCause ==
    slog.first # NoCause
      => /\ script.resolved = <<CauseCode(slog.first)>>
         /\ script.exitCode = CauseCode(slog.first)
         /\ script.timeoutId = NoTimeout
         /\ ~script.isConnected
         /\ script.ws = "null"

\* The connect() call of the retry timer has failed: its socket closed
\* without opening, and no socket is alive.
FailedRetry ==
    /\ calls.retry = "pending"
    /\ \E s \in SocketIds : sockets[s].by = "retry" /\ sockets[s].state = "closed"
    /\ \A s \in SocketIds : sockets[s].state \in {"unused", "closed"}

\* C31: while the session runs, was not disconnected locally and has used
\* fewer than maxReconnectAttempts attempts, a reconnect attempt that failed
\* is followed by another one: the retry timer is armed or its connect() is
\* under way.
C31_FailedRetryIsRescheduled ==
    (/\ Running
     /\ ~clog.disconnectCalled
     /\ ipcClient.reconnectAttempts < maxReconnectAttempts
     /\ FailedRetry)
       => \/ ipcClient.reconnectTimeoutId = "armed"
          \/ calls.retry = "readingPort"

\* A connect() call that has begun and is not settled.
InFlight(state) == state \in {"readingPort", "pending"}

\* C32: a session has at most one reconnect attempt scheduled or in flight:
\* while the connect() of the retry timer is unsettled no timer is armed (so
\* no second connect() can begin), and no retry is armed or in flight while
\* the CLI's own connect() is unsettled.
C32_OneAttemptAtATime ==
    /\ ~(ipcClient.reconnectTimeoutId = "armed" /\ InFlight(calls.retry))
    /\ ~(InFlight(calls.initial.state)
           /\ (ipcClient.reconnectTimeoutId = "armed" \/ InFlight(calls.retry)))

\* A close event arrived while the retry's connect() was pending.
C32_Witness ==
    /\ FailedRetry
    /\ ipcClient.isReconnecting
    /\ ipcClient.reconnectTimeoutId = "fired"

\* C33: while the process runs, isConnected is true exactly when the socket
\* this.ws refers to is open.
C33_ConnectedIffTransportOpen ==
    Running =>
       (ipcClient.isConnected
          <=> (ipcClient.ws # NoSocket /\ sockets[ipcClient.ws].state = "open"))

\* The update handleStreamedContent rendered last.
LastFed == rlog.fed[Len(rlog.fed)]

StrictPrefix(p, t) == Len(p) < Len(t) /\ StartsWith(t, p)

\* C34: a streamable update of a running stream whose content is a strict
\* prefix of currentStreamedMessage writes nothing, neither text nor label,
\* and leaves currentStreamedMessage and hasDisplayedPrefix as they were.
C34_StrictPrefixDiscarded ==
    (/\ rlog.op = "update"
     /\ LastFed.before.isStreaming
     /\ StrictPrefix(LastFed.content, LastFed.before.currentStreamedMessage))
      => /\ LastFed.writes = << >>
         /\ LastFed.after.currentStreamedMessage = LastFed.before.currentStreamedMessage
         /\ LastFed.after.hasDisplayedPrefix = LastFed.before.hasDisplayedPrefix

\* C35: in one stream the label is written once, before the first delta: an
\* update that continues a stream for which text has been written already,
\* also after a message of another kind in between, writes no label.
C35_LabelOnlyBeforeFirstDelta ==
    (/\ rlog.op = "update"
     /\ Len(rlog.chain) >= 2
     /\ Len(rlog.chainOut) > Len(TextOf(LastFed.writes)))
      => ~HasWrite(LastFed.writes, "label")

\* C36: a message of a kind that is not streamed is rendered once when it
\* is complete and not at all when it is partial, and it leaves
\* currentStreamedMessage as it was, however many prompt rounds the Repl
\* has been through.
C36_NonStreamableRenderedOnce ==
    /\ blog.op = "say" => blog.rendered = 1 /\ blog.kept
    /\ blog.op = "partialSay" => blog.rendered = 0 /\ blog.kept

\* C37: of two updates rendered one straight after the other, the second is
\* taken for a repeat (its hash equals lastMessageId) only if its content
\* is the content of the first.
C37_RepeatOnlyIfIdentical ==
    (/\ Pair
     /\ generateMessageId(rlog.fed[2].content) = rlog.fed[2].before.lastMessageId)
      => rlog.fed[2].content = rlog.fed[1].content

\* C38: a step that leaves the entry of a task in taskIdToClientIdMap (the
\* entry exists before and after it) removes no client from it.
C38_RegistrationNeverShrinks ==
    [][\A t \in TaskIds :
          (MapHas(taskIdToClientIdMap, t) /\ MapHas(taskIdToClientIdMap', t))
            => Elems(taskIdToClientIdMap[t]) \subseteq Elems(taskIdToClientIdMap'[t])]_vars

\* C39: when the bridge reports that it could not parse or process the
\* newTask command (its action message didBecomeVisible) and that report
\* ends the invocation, the exit code is 1.
C39_ServerFailureExitsOne ==
    [][(/\ script.phase \in {"sending", "sent"}
        /\ slog'.op = "didBecomeVisible"
        /\ ~script.isComplete
        /\ script'.isComplete)
          => script'.exitCode = 1]_scriptVars
====
